---- MODULE Spec2Model ----
(***************************************************************************)
(* Model of the Leshan LwM2M client (custom_components/dev_leshan_lwm2m/   *)
(* leshan_client/leshan_client.py) and of the polling coordinator          *)
(* (custom_components/leshan_lwm2m/leshan_lwm2m_coordinator.py).           *)
(*                                                                         *)
(* asyncio is cooperative: the code between two awaits runs atomically, so *)
(* every action below is one such stretch of code.                         *)
(***************************************************************************)
EXTENDS Integers, Sequences, FiniteSets, Bags, TLC

\* ---------------------------------------------------------------- bounds
\* observe() calls made in one run (each makes one ObservationEntry object)
MaxObserves == 3
\* listener tasks created in one run
MaxTasks == 2
\* cancel_observe calls awaiting their request at one time
MaxCalls == 2

Endpoints == {"epA", "epB"}

\* ---------------------------------------------------------- value codec
\* A Python value off the wire: a str (its characters), a bool or an int.
RawStr(s) == [py |-> "str", chars |-> s, b |-> FALSE, n |-> 0]
RawBool(x) == [py |-> "bool", chars |-> <<>>, b |-> x, n |-> 0]
RawInt(k) == [py |-> "int", chars |-> <<>>, b |-> FALSE, n |-> k]
RawFloat(s) == [py |-> "float", chars |-> s, b |-> FALSE, n |-> 0]

DigitVal(c) ==
    CASE c = "0" -> 0 [] c = "1" -> 1 [] c = "2" -> 2 [] c = "3" -> 3
      [] c = "4" -> 4 [] c = "5" -> 5 [] c = "6" -> 6 [] c = "7" -> 7
      [] c = "8" -> 8 [] c = "9" -> 9 [] OTHER -> -1

IsDigits(s) == Len(s) > 0 /\ \A i \in 1..Len(s) : DigitVal(s[i]) >= 0

RECURSIVE ParseDigits(_)
ParseDigits(s) ==
    IF Len(s) = 0 THEN 0
    ELSE 10 * ParseDigits(SubSeq(s, 1, Len(s) - 1)) + DigitVal(s[Len(s)])

\* int(x): [ok, v]; a str that is not a decimal numeral raises ValueError
PyInt(x) ==
    CASE x.py = "int" -> [ok |-> TRUE, v |-> RawInt(x.n)]
      [] x.py = "bool" -> [ok |-> TRUE, v |-> RawInt(IF x.b THEN 1 ELSE 0)]
      [] x.py = "str" ->
           IF IsDigits(x.chars) THEN [ok |-> TRUE, v |-> RawInt(ParseDigits(x.chars))]
           ELSE [ok |-> FALSE, v |-> x]
      [] OTHER -> [ok |-> FALSE, v |-> x]

\* float(x) of a str: digits with at most one "."
IsFloatLit(s) ==
    /\ \E i \in 1..Len(s) : DigitVal(s[i]) >= 0
    /\ \A i \in 1..Len(s) : DigitVal(s[i]) >= 0 \/ s[i] = "."
    /\ Cardinality({i \in 1..Len(s) : s[i] = "."}) <= 1

PyFloat(x) ==
    CASE x.py = "int" -> [ok |-> TRUE, v |-> x]
      [] x.py = "bool" -> [ok |-> TRUE, v |-> RawInt(IF x.b THEN 1 ELSE 0)]
      [] x.py = "str" ->
           IF IsFloatLit(x.chars) THEN [ok |-> TRUE, v |-> RawFloat(x.chars)]
           ELSE [ok |-> FALSE, v |-> x]
      [] OTHER -> [ok |-> TRUE, v |-> x]

\* bool(x): truthiness; every non-empty str is true
PyBool(x) ==
    CASE x.py = "bool" -> x.b
      [] x.py = "int" -> x.n # 0
      [] x.py = "str" -> Len(x.chars) > 0
      [] OTHER -> TRUE

\* str.lower() on the kind strings that occur on the wire
Lower(s) ==
    CASE s = "STRING" -> "string" [] s = "INTEGER" -> "integer"
      [] s = "FLOAT" -> "float" [] s = "BOOLEAN" -> "boolean"
      [] s = "OPAQUE" -> "opaque" [] s = "TIME" -> "time"
      [] s = "OBJLNK" -> "objlnk" [] OTHER -> s

\* the values of the StrEnum: auto() gives the lower-cased member name
Lwm2mResourceValueType ==
    {"string", "integer", "float", "boolean", "opaque", "time", "objlnk"}

\* a resource value built whatever its kind string: an unknown kind is kept
\* as a string value
Lwm2mResourceValueFallback(resource_id, type, value) ==
    [exc |-> "none", resource_id |-> resource_id, type |-> "string", value |-> value]

\* Lwm2mResourceValue(resource_id, type, value) with its __post_init__:
\* exc is "none" or the exception the constructor raises
Lwm2mResourceValue(resource_id, type, value) ==
    LET t == Lower(type) IN
    IF t \notin Lwm2mResourceValueType
    THEN [exc |-> "ValueError", resource_id |-> resource_id, type |-> t, value |-> value]
    ELSE IF t = "integer"
    THEN [exc |-> IF PyInt(value).ok THEN "none" ELSE "ValueError",
          resource_id |-> resource_id, type |-> t, value |-> PyInt(value).v]
    ELSE IF t = "float"
    THEN [exc |-> IF PyFloat(value).ok THEN "none" ELSE "ValueError",
          resource_id |-> resource_id, type |-> t, value |-> PyFloat(value).v]
    ELSE IF t = "boolean"
    THEN [exc |-> "none", resource_id |-> resource_id, type |-> t,
          value |-> RawBool(PyBool(value))]
    ELSE [exc |-> "none", resource_id |-> resource_id, type |-> t, value |-> value]

\* -------------------------------------------------- notification events
\* A resource of a device: (endpoint, object id, instance id, resource id)
Target(e, o, i, r) == [endpoint |-> e, object_id |-> o, instance_id |-> i, resource_id |-> r]

\* the resources the callers observe
Targets ==
    {Target("epA", 3, 0, 5), Target("epA", 3, 0, 6), Target("epB", 3, 0, 5)}

\* what observe() is called with: a target and a callback
ObserveInputs ==
    {[target |-> t, callback |-> "c1"] : t \in Targets}
        \cup {[target |-> Target("epA", 3, 0, 5), callback |-> "c2"]}

\* the resources the server notifies about on the stream of endpoint e
NotifiedTargets(e) ==
    {Target(e, 3, 0, 5), Target(e, 3, 1, 5), Target(e, 4, 0, 5)}

Numeral(k) ==
    CASE k = 0 -> <<"0">> [] k = 1 -> <<"1">> [] k = 3 -> <<"3">>
      [] k = 4 -> <<"4">> [] k = 5 -> <<"5">> [] k = 6 -> <<"6">>

\* the "res" string of a notification, "/obj/inst/res", as characters
ResPath(t) ==
    <<"/">> \o Numeral(t.object_id) \o <<"/">> \o Numeral(t.instance_id)
        \o <<"/">> \o Numeral(t.resource_id)

\* the JSON document of an event: json_ok is whether json.loads accepts it,
\* has_res / has_val whether the keys "res" / "val" are present
EventData(json_ok, has_res, has_val, ep, res, val) ==
    [json_ok |-> json_ok, has_res |-> has_res, has_val |-> has_val,
     ep |-> ep, res |-> res, val |-> val]

WireVal(id, type, value) == [id |-> id, type |-> type, value |-> value]

GoodEvents(e) ==
    {[type |-> "NOTIFICATION", data |-> EventData(TRUE, TRUE, TRUE, t.endpoint, ResPath(t), v)] :
        t \in NotifiedTargets(e),
        v \in {WireVal(5, "boolean", RawStr(<<"t", "r", "u", "e">>))}}
    \cup {[type |-> "NOTIFICATION",
           data |-> EventData(TRUE, TRUE, TRUE, e, ResPath(Target(e, 3, 0, 6)),
                              WireVal(6, "INTEGER", RawStr(<<"4", "2">>)))]}

\* events whose payload the listener cannot decode
BadEvents(e) ==
    LET t == Target(e, 3, 0, 5)
        v == WireVal(5, "boolean", RawStr(<<"t", "r", "u", "e">>))
    IN {[type |-> "NOTIFICATION", data |-> EventData(FALSE, FALSE, FALSE, e, <<>>, v)],
        [type |-> "NOTIFICATION", data |-> EventData(TRUE, FALSE, TRUE, e, <<>>, v)],
        [type |-> "NOTIFICATION", data |-> EventData(TRUE, TRUE, TRUE, e, <<"/", "3", "/", "x", "/", "5">>, v)],
        [type |-> "NOTIFICATION",
         data |-> EventData(TRUE, TRUE, TRUE, e, ResPath(t), WireVal(5, "bogus", RawStr(<<"1">>)))]}

OtherEvents(e) ==
    {[type |-> "REGISTRATION", data |-> EventData(TRUE, FALSE, FALSE, e, <<>>,
                                                  WireVal(0, "string", RawStr(<<>>)))]}

StreamEvents(e) == GoodEvents(e) \cup BadEvents(e) \cup OtherEvents(e)

\* str.split(sep) on a character sequence
RECURSIVE Split(_, _)
Split(s, sep) ==
    IF \A i \in 1..Len(s) : s[i] # sep THEN <<s>>
    ELSE LET k == CHOOSE i \in 1..Len(s) : s[i] = sep /\ \A j \in 1..(i - 1) : s[j] # sep
         IN <<SubSeq(s, 1, k - 1)>> \o Split(SubSeq(s, k + 1, Len(s)), sep)

NoValue == [exc |-> "none", resource_id |-> 0, type |-> "string", value |-> RawStr(<<>>)]
NoNotif == [ep |-> "", object_id |-> 0, instance_id |-> 0, resource_id |-> 0]

\* leshan_client.py 111-125: parse the payload of a NOTIFICATION event.
\* exc is "none" or the exception the first failing statement raises.
DecodeNotification(data) ==
    LET parts == Split(data.res, "/")
        Fail(x) == [exc |-> x, notif |-> NoNotif, value |-> NoValue]
    IN IF ~data.json_ok THEN Fail("ValueError")
       ELSE IF ~data.has_res THEN Fail("KeyError")
       ELSE IF Len(parts) < 4 THEN Fail("IndexError")
       ELSE IF \E k \in 2..4 : ~IsDigits(parts[k]) THEN Fail("ValueError")
       ELSE IF ~data.has_val THEN Fail("KeyError")
       ELSE LET value == Lwm2mResourceValue(data.val.id, data.val.type, data.val.value)
            IN IF value.exc # "none" THEN Fail(value.exc)
               ELSE [exc |-> "none",
                     notif |-> [ep |-> data.ep,
                                object_id |-> ParseDigits(parts[2]),
                                instance_id |-> ParseDigits(parts[3]),
                                resource_id |-> ParseDigits(parts[4])],
                     value |-> value]

\* ------------------------------------------------------------------ state
VARIABLES
    observations,                       \* LeshanClient._observations
    endpoint_notification_tasks,        \* endpoint -> task (0: no key)
    endpoint_notification_stop_events,  \* endpoint -> stop event (0: no key)
    listeners,                          \* the listener tasks ever created
    cancels,                            \* cancel_observe calls awaiting their request:
                                        \* the bag of the entries they found
    call_errors,                        \* what the observe / cancel_observe call that ended
                                        \* last raised to its caller ({}: it returned)
    n_observes,                         \* observe() calls made so far
    cancel_called                       \* cancel_observe has been called

obs_vars == <<observations, endpoint_notification_tasks,
              endpoint_notification_stop_events, listeners, cancels, call_errors,
              n_observes, cancel_called>>

\* the directory and the polling coordinator
VARIABLES
    server_clients,   \* what GET /api/clients lists now (the server's state)
    lwm2m_clients,    \* LeshanClient.lwm2m_clients, one list object for the client's life
    poll_list,        \* LeshanLwm2mCoordinator._poll_list
    cycle,            \* the async_update_data call in progress
    data,             \* coordinator.data: the Snapshot returned last
    published,        \* what that Snapshot held when it was returned
    n_cycles,         \* poll cycles started
    n_failures        \* UpdateFailed raised to the coordinator's caller

poll_vars == <<server_clients, lwm2m_clients, poll_list, cycle, data, published,
               n_cycles, n_failures>>

\* one call of request and one construction of a Lwm2mResourceValue, each
\* with its arguments (in), whether it has run (done) and its result (out)
VARIABLES
    request_call,
    value_call

codec_vars == <<request_call, value_call>>

\* the callback invocations of the listener tasks, in the order they start
\* and end: [task, n, kind, id, notif] with n the ordinal, among the
\* notifications the task has delivered, of the notification the callback
\* is invoked for, kind "start" or "end", id the Subscription invoked
VARIABLE delivery_log

\* the transport session and the calls that go through it
VARIABLES
    session,     \* LeshanClient._session: 0 (None) or the session it refers to
    sessions,    \* the ClientSession objects there have been: "open" or "closed"
    in_flight,   \* calls of read / write / request awaiting their HTTP exchange
    closing,     \* calls of close suspended in `await self._session.close()`
    last_call,   \* the call of read / write / request / close that ended last
    n_calls,     \* calls of read / write / request made
    n_closes     \* calls of close made

http_vars == <<session, sessions, in_flight, closing, last_call, n_calls, n_closes>>

\* the registration listener (listen_registrations)
VARIABLES
    registration,         \* the coroutine: where it is suspended
    registration_events,  \* the events it has taken off the server-wide stream
    registration_calls    \* the invocations of the caller's callback

reg_vars == <<registration, registration_events, registration_calls>>

\* the coordinator instances
VARIABLES
    coordinators,   \* LeshanLwm2mCoordinator instances constructed
    added_by        \* for each entry of the poll list, the instance it was added on

coord_vars == <<coordinators, added_by>>

\* the events the endpoint listeners have taken off their streams, in
\* order: [task, type]
VARIABLE events_seen

\* one call of read: its arguments, the path it requests, what it returns
VARIABLE read_call

\* the integration's registration handler
VARIABLES
    known_clients,  \* RuntimeData.known_clients
    flows           \* the clients discovery flows were created for, in order

tail_vars == <<read_call, known_clients, flows>>

rest_vars == <<http_vars, reg_vars, coord_vars, events_seen, tail_vars>>

vars == <<obs_vars, poll_vars, codec_vars, delivery_log, rest_vars>>

\* ObservationEntry; id stands for the identity of the Python object
ObservationEntry(id, t, cb) ==
    [id |-> id, endpoint |-> t.endpoint, object_id |-> t.object_id,
     instance_id |-> t.instance_id, resource_id |-> t.resource_id, callback |-> cb]

\* the generated dataclass __eq__ of ObservationEntry: field by field, the
\* client by its endpoint (Lwm2mClient.__eq__); object identity plays no part
EntryEq(a, b) ==
    /\ a.endpoint = b.endpoint
    /\ a.object_id = b.object_id
    /\ a.instance_id = b.instance_id
    /\ a.resource_id = b.resource_id
    /\ a.callback = b.callback

\* a listener task: the coroutine _listen_endpoint_notifications(endpoint, stop_event)
\*   pc          where the coroutine is suspended, or how it ended
\*   stop        stop_event.is_set()
\*   must_cancel task.cancel() was called and CancelledError is not yet delivered
\*   exc         the exception that ended its last connection ("none" once
\*               it is connected again), or that ended the task
\*   delay       the argument of the asyncio.sleep it is in (0: not sleeping)
\*   notif,value the notification being delivered
\*   idx         items the list iterator over _observations has yielded
\*   fired       the entries whose callback was invoked for notif, in order
NewListener(e) ==
    [endpoint |-> e, pc |-> "created", stop |-> FALSE, must_cancel |-> FALSE,
     exc |-> "none", delay |-> 0, notif |-> NoNotif, value |-> NoValue,
     idx |-> 0, fired |-> <<>>]

Terminated == {"stopped", "failed", "cancelled"}

ObsInit ==
    /\ observations = <<>>
    /\ endpoint_notification_tasks = [e \in Endpoints |-> 0]
    /\ endpoint_notification_stop_events = [e \in Endpoints |-> 0]
    /\ listeners = <<>>
    /\ cancels = EmptyBag
    /\ call_errors = {}
    /\ n_observes = 0
    /\ cancel_called = FALSE

\* ---------------------------------------------------------- the transport
\* What the HTTP exchange of one request comes to: transport is "ok" (a
\* response arrived) or the exception aiohttp / asyncio.timeout raised;
\* a response has a status, a Content-Type and a body (json_ok: json.loads
\* accepts it; text: the body itself)
HttpResult(transport, status, content_type, json_ok, text) ==
    [transport |-> transport, status |-> status, content_type |-> content_type,
     json_ok |-> json_ok, text |-> text]

Statuses == {200, 399, 400, 404, 500, 599}
ContentTypes == {"application/json", "text/plain", ""}
Bodies == {[json_ok |-> TRUE, text |-> "{\"k\": 1}"], [json_ok |-> FALSE, text |-> ""],
           [json_ok |-> FALSE, text |-> "oops"]}

\* TimeoutError from asyncio.timeout; ClientConnectionError; ClientPayloadError,
\* an aiohttp.ClientError that is no ClientConnectionError
TransportExceptions == {"TimeoutError", "ClientConnectionError", "ClientPayloadError"}

RequestInputs ==
    {HttpResult("ok", st, ct, b.json_ok, b.text) :
        st \in Statuses, ct \in ContentTypes, b \in Bodies}
    \cup {HttpResult(x, 0, "", FALSE, "") : x \in TransportExceptions}

\* the result of request: the exception raised ("none": it returned), the
\* arguments of LeshanClientError (status, content) and the value returned.
\* content / returned: how the body shows (kind) and the body (text)
NoContent == [kind |-> "none", text |-> ""]
RequestResult(exc, status, content, returned) ==
    [exc |-> exc, status |-> status, content |-> content, returned |-> returned]

\* LeshanClient.request (383-417) on the exchange x
Request(x) ==
    IF x.transport = "TimeoutError"
    THEN RequestResult("LeshanClientConnectionTimeoutError", 0, NoContent, NoContent)
    ELSE IF x.transport = "ClientConnectionError"
    THEN RequestResult("LeshanClientConnectionError", 0, NoContent, NoContent)
    ELSE IF x.transport # "ok"
    THEN RequestResult(x.transport, 0, NoContent, NoContent)
    ELSE IF x.status >= 400 /\ x.status < 600
    THEN IF x.content_type = "application/json"
         THEN IF x.json_ok
              THEN RequestResult("LeshanClientError", x.status,
                                 [kind |-> "json", text |-> x.text], NoContent)
              ELSE RequestResult("JSONDecodeError", 0, NoContent, NoContent)
         ELSE RequestResult("LeshanClientError", x.status,
                            [kind |-> "message", text |-> x.text], NoContent)
    ELSE IF x.content_type = "application/json"
    THEN \* response.json(): None for an empty body, else json.loads of it
         IF x.text = ""
         THEN RequestResult("none", 0, NoContent, [kind |-> "null", text |-> x.text])
         ELSE IF x.json_ok
         THEN RequestResult("none", 0, NoContent, [kind |-> "json", text |-> x.text])
         ELSE RequestResult("JSONDecodeError", 0, NoContent, NoContent)
    ELSE RequestResult("none", 0, NoContent, [kind |-> "data", text |-> x.text])

\* the outcomes of LeshanClient.request for the activation / deactivation
\* call: "ok" or the exception it raises
RequestOutcomes ==
    {IF Request(x).exc = "none" THEN "ok" ELSE Request(x).exc : x \in RequestInputs}

\* except (aiohttp.ClientError, LeshanClientError) of _observe_resource and
\* _cancel_observe: the connection errors are subclasses of LeshanClientError
Swallowed(outcome) ==
    outcome \in {"ClientError", "ClientPayloadError", "LeshanClientError",
                 "LeshanClientConnectionError", "LeshanClientConnectionTimeoutError"}

\* what a call raises to its caller when its request ends with outcome
Escapes(outcome) == IF outcome = "ok" \/ Swallowed(outcome) THEN {} ELSE {outcome}

\* a listener started by every observe call
NeedsListenerAlways(e) == TRUE

\* observe (450-453): `not any(obs.client.endpoint == ... for obs in _observations)`
NeedsListener(e) ==
    ~\E i \in 1..Len(observations) : observations[i].endpoint = e

\* observe(client, instance, resource_id, callback): start the endpoint's
\* listener if no entry has the endpoint, append the entry, await the
\* activation request (nothing follows the await but the log of a failure)
Observe(in, outcome) ==
    LET e == in.target.endpoint
        entry == ObservationEntry(n_observes + 1, in.target, in.callback)
        t == Len(listeners) + 1
    IN /\ n_observes < MaxObserves
       /\ NeedsListener(e) => Len(listeners) < MaxTasks
       /\ IF NeedsListener(e)
          THEN /\ endpoint_notification_stop_events' =
                      [endpoint_notification_stop_events EXCEPT ![e] = t]
               /\ listeners' = Append(listeners, NewListener(e))
               /\ endpoint_notification_tasks' =
                      [endpoint_notification_tasks EXCEPT ![e] = t]
          ELSE UNCHANGED <<endpoint_notification_stop_events, listeners,
                           endpoint_notification_tasks>>
       /\ observations' = Append(observations, entry)
       /\ n_observes' = n_observes + 1
       /\ call_errors' = Escapes(outcome)
       /\ UNCHANGED <<cancels, cancel_called>>
       /\ UNCHANGED <<poll_vars, codec_vars>>

\* the first entry of the endpoint, whatever its object, instance and resource
FindObservationByEndpoint(t) ==
    LET hits == {i \in 1..Len(observations) : observations[i].endpoint = t.endpoint}
    IN IF hits = {} THEN 0 ELSE CHOOSE i \in hits : \A j \in hits : i <= j

\* cancel_observe (492-504): the first entry with the 4-tuple, 0 if none
FindObservation(t) ==
    LET hits == {i \in 1..Len(observations) :
                    /\ observations[i].endpoint = t.endpoint
                    /\ observations[i].object_id = t.object_id
                    /\ observations[i].instance_id = t.instance_id
                    /\ observations[i].resource_id = t.resource_id}
    IN IF hits = {} THEN 0 ELSE CHOOSE i \in hits : \A j \in hits : i <= j

\* the matching entry removed before the deactivation request is sent
CancelStartRemovesFirst(t) ==
    /\ BagCardinality(cancels) < MaxCalls
    /\ cancel_called' = TRUE
    /\ cancels' = IF FindObservation(t) = 0 THEN cancels
                  ELSE cancels (+) SetToBag({observations[FindObservation(t)]})
    /\ call_errors' = IF FindObservation(t) = 0 THEN {} ELSE call_errors
    /\ observations' = IF FindObservation(t) = 0 THEN observations
                       ELSE SubSeq(observations, 1, FindObservation(t) - 1)
                            \o SubSeq(observations, FindObservation(t) + 1, Len(observations))
    /\ UNCHANGED <<endpoint_notification_tasks,
                   endpoint_notification_stop_events, listeners, n_observes>>
    /\ UNCHANGED <<poll_vars, codec_vars>>

\* cancel_observe() up to its await: no matching entry -> return; else send
\* the deactivation request
CancelStart(t) ==
    /\ BagCardinality(cancels) < MaxCalls
    /\ cancel_called' = TRUE
    /\ cancels' = IF FindObservation(t) = 0 THEN cancels
                  ELSE cancels (+) SetToBag({observations[FindObservation(t)]})
    /\ call_errors' = IF FindObservation(t) = 0 THEN {} ELSE call_errors
    /\ UNCHANGED <<observations, endpoint_notification_tasks,
                   endpoint_notification_stop_events, listeners, n_observes>>
    /\ UNCHANGED <<poll_vars, codec_vars>>

\* list.remove(x): the index of the first item equal to x, 0 if none (ValueError)
RemoveIndex(list, x) ==
    LET hits == {i \in 1..Len(list) : EntryEq(list[i], x)}
    IN IF hits = {} THEN 0 ELSE CHOOSE i \in hits : \A j \in hits : i <= j

RemoveAt(list, k) == SubSeq(list, 1, k - 1) \o SubSeq(list, k + 1, Len(list))

\* the listener stopped only when no entry at all remains
LastOfEndpointWhenEmpty(remaining, e) == remaining = <<>>

\* cancel_observe (511-514): no remaining entry has the endpoint
LastOfEndpoint(remaining, e) ==
    ~\E i \in 1..Len(remaining) : remaining[i].endpoint = e

\* the task cancelled but left in the task registry
CancelFinishKeepsTask(x, outcome) ==
    LET e == x.endpoint
        k == RemoveIndex(observations, x)
        remaining == RemoveAt(observations, k)
        ev == endpoint_notification_stop_events[e]
        tk == endpoint_notification_tasks[e]
        stopped == [listeners EXCEPT ![ev].stop = TRUE]
        \* Task.cancel() does nothing to a task that is done
        cancelled == [stopped EXCEPT ![tk].must_cancel = (stopped[tk].pc \notin Terminated)]
        Raised(r) == call_errors' = r
    IN /\ BagIn(x, cancels)
       /\ cancels' = cancels (-) SetToBag({x})
       /\ UNCHANGED <<n_observes, cancel_called>>
       /\ UNCHANGED <<poll_vars, codec_vars>>
       /\ IF Escapes(outcome) # {}
          THEN /\ Raised(Escapes(outcome))
               /\ UNCHANGED <<observations, endpoint_notification_tasks,
                              endpoint_notification_stop_events, listeners>>
          ELSE IF k = 0
          THEN \* list.remove raises ValueError
               /\ Raised({"ValueError"})
               /\ UNCHANGED <<observations, endpoint_notification_tasks,
                              endpoint_notification_stop_events, listeners>>
          ELSE /\ observations' = remaining
               /\ IF ~LastOfEndpoint(remaining, e)
                  THEN /\ Raised({})
                       /\ UNCHANGED <<endpoint_notification_tasks,
                                      endpoint_notification_stop_events, listeners>>
                  ELSE IF ev = 0
                  THEN \* dict.pop raises KeyError
                       /\ Raised({"KeyError"})
                       /\ UNCHANGED <<endpoint_notification_tasks,
                                      endpoint_notification_stop_events, listeners>>
                  ELSE /\ endpoint_notification_stop_events' =
                              [endpoint_notification_stop_events EXCEPT ![e] = 0]
                       /\ IF tk = 0
                          THEN /\ Raised({"KeyError"})
                               /\ listeners' = stopped
                               /\ UNCHANGED endpoint_notification_tasks
                          ELSE /\ Raised({})
                               /\ listeners' = cancelled
                               /\ UNCHANGED endpoint_notification_tasks

\* cancel_observe (506-521) after its await, for the call that found entry x:
\* remove the entry and, if it was the endpoint's last, set the stop event
\* and cancel the task
CancelFinish(x, outcome) ==
    LET e == x.endpoint
        k == RemoveIndex(observations, x)
        remaining == RemoveAt(observations, k)
        ev == endpoint_notification_stop_events[e]
        tk == endpoint_notification_tasks[e]
        stopped == [listeners EXCEPT ![ev].stop = TRUE]
        \* Task.cancel() does nothing to a task that is done
        cancelled == [stopped EXCEPT ![tk].must_cancel = (stopped[tk].pc \notin Terminated)]
        Raised(r) == call_errors' = r
    IN /\ BagIn(x, cancels)
       /\ cancels' = cancels (-) SetToBag({x})
       /\ UNCHANGED <<n_observes, cancel_called>>
       /\ UNCHANGED <<poll_vars, codec_vars>>
       /\ IF Escapes(outcome) # {}
          THEN /\ Raised(Escapes(outcome))
               /\ UNCHANGED <<observations, endpoint_notification_tasks,
                              endpoint_notification_stop_events, listeners>>
          ELSE IF k = 0
          THEN \* list.remove raises ValueError
               /\ Raised({"ValueError"})
               /\ UNCHANGED <<observations, endpoint_notification_tasks,
                              endpoint_notification_stop_events, listeners>>
          ELSE /\ observations' = remaining
               /\ IF ~LastOfEndpoint(remaining, e)
                  THEN /\ Raised({})
                       /\ UNCHANGED <<endpoint_notification_tasks,
                                      endpoint_notification_stop_events, listeners>>
                  ELSE IF ev = 0
                  THEN \* dict.pop raises KeyError
                       /\ Raised({"KeyError"})
                       /\ UNCHANGED <<endpoint_notification_tasks,
                                      endpoint_notification_stop_events, listeners>>
                  ELSE /\ endpoint_notification_stop_events' =
                              [endpoint_notification_stop_events EXCEPT ![e] = 0]
                       /\ IF tk = 0
                          THEN /\ Raised({"KeyError"})
                               /\ listeners' = stopped
                               /\ UNCHANGED endpoint_notification_tasks
                          ELSE /\ Raised({})
                               /\ listeners' = cancelled
                               /\ endpoint_notification_tasks' =
                                      [endpoint_notification_tasks EXCEPT ![e] = 0]

\* ---------------------------------------------------- the listener loop
\* what the listener expects of the stream and of the callbacks
StreamExceptions == {"TimeoutError", "ClientError"}
CallbackExceptions == {"RuntimeError"}

\* the fixed backoff: asyncio.sleep(5)
BackoffDelay == 5

\* a timeout handled like the transport errors
ExceptHandlerTimeoutSleeps(exc) ==
    IF exc \in {"TimeoutError", "ClientError", "LeshanClientError",
                "LeshanClientConnectionError", "LeshanClientConnectionTimeoutError"}
    THEN "sleep"
    ELSE "propagate"

\* the except clauses of _listen_endpoint_notifications (137-146)
ExceptHandler(exc) ==
    IF exc = "TimeoutError" THEN "pass"
    ELSE IF exc \in {"ClientError", "LeshanClientError", "LeshanClientConnectionError",
                     "LeshanClientConnectionTimeoutError"} THEN "sleep"
    ELSE "propagate"

\* the listener is not delivering: the locals of the loop body are gone
Cleared(L) ==
    [L EXCEPT !.notif = NoNotif, !.value = NoValue, !.idx = 0, !.fired = <<>>]

\* `while not stop_event.is_set()` and the entry into EventSource
LoopTop(L) ==
    IF L.stop THEN [Cleared(L) EXCEPT !.pc = "stopped", !.delay = 0]
    ELSE [Cleared(L) EXCEPT !.pc = "connecting", !.delay = 0]

\* an exception raised inside the try block
Raise(L, exc) ==
    LET h == ExceptHandler(exc)
    IN IF h = "pass" THEN LoopTop([L EXCEPT !.exc = exc])
       ELSE IF h = "sleep"
       THEN [Cleared(L) EXCEPT !.pc = "backoff", !.delay = BackoffDelay, !.exc = exc]
       ELSE [Cleared(L) EXCEPT !.pc = "failed", !.exc = exc]

\* the delivery condition without the resource id
MatchesIgnoringResource(o, n) ==
    /\ o.endpoint = n.ep
    /\ o.object_id = n.object_id
    /\ o.instance_id = n.instance_id

\* the condition of the delivery loop (128-133)
Matches(o, n) ==
    /\ o.endpoint = n.ep
    /\ o.object_id = n.object_id
    /\ o.instance_id = n.instance_id
    /\ o.resource_id = n.resource_id

\* every matching callback started at once, none awaited
ScanFanOut(L, list) ==
    LET hits == {j \in (L.idx + 1)..Len(list) : Matches(list[j], L.notif)}
    IN IF hits = {} THEN [Cleared(L) EXCEPT !.pc = "streaming"]
       ELSE [L EXCEPT !.pc = "streaming", !.idx = Len(list),
                      !.fired = SelectSeq(list, LAMBDA o : Matches(o, L.notif))]

\* the delivery loop taking the last matching entry first
ScanFromEnd(L, list) ==
    LET hits == {j \in (L.idx + 1)..Len(list) : Matches(list[j], L.notif)}
        j == CHOOSE i \in hits : \A m \in hits : i >= m
    IN IF hits = {} THEN [Cleared(L) EXCEPT !.pc = "streaming"]
       ELSE [L EXCEPT !.pc = "callback", !.idx = j,
                      !.fired = Append(@, list[j])]

\* `for observation in self._observations` (127-136) from the iterator's
\* position up to the next awaited callback, or to the end of the list
Scan(L, list) ==
    LET hits == {j \in (L.idx + 1)..Len(list) : Matches(list[j], L.notif)}
        j == CHOOSE i \in hits : \A m \in hits : i <= m
    IN IF hits = {} THEN [Cleared(L) EXCEPT !.pc = "streaming"]
       ELSE [L EXCEPT !.pc = "callback", !.idx = j,
                      !.fired = Append(@, list[j])]

\* a task goes on although its cancellation is pending
RunningThoughCancelled(t) == t \in DOMAIN listeners

Running(t) ==
    /\ t \in DOMAIN listeners
    /\ ~listeners[t].must_cancel

ListenerFrame ==
    /\ UNCHANGED <<observations, endpoint_notification_tasks,
                   endpoint_notification_stop_events, cancels, call_errors,
                   n_observes, cancel_called>>
    /\ UNCHANGED <<poll_vars, codec_vars>>

\* the task runs for the first time
ListenerStart(t) ==
    /\ Running(t) /\ listeners[t].pc = "created"
    /\ listeners' = [listeners EXCEPT ![t] = LoopTop(@)]
    /\ ListenerFrame

\* EventSource connects
ConnectOk(t) ==
    /\ Running(t) /\ listeners[t].pc = "connecting"
    /\ listeners' = [listeners EXCEPT ![t] = [@ EXCEPT !.pc = "streaming", !.exc = "none"]]
    /\ ListenerFrame

ConnectFail(t, exc) ==
    /\ Running(t) /\ listeners[t].pc = "connecting"
    /\ listeners' = [listeners EXCEPT ![t] = Raise(@, exc)]
    /\ ListenerFrame

\* every event decoded and delivered, whatever its type
StreamEventOfAnyType(t, ev) ==
    /\ Running(t) /\ listeners[t].pc = "streaming"
    /\ listeners' = [listeners EXCEPT ![t] =
          LET d == DecodeNotification(ev.data)
          IN IF d.exc # "none" THEN Raise(@, d.exc)
             ELSE Scan([@ EXCEPT !.notif = d.notif, !.value = d.value,
                                 !.idx = 0, !.fired = <<>>],
                       observations)]
    /\ ListenerFrame

\* one event off the stream (104-136)
StreamEvent(t, ev) ==
    /\ Running(t) /\ listeners[t].pc = "streaming"
    /\ listeners' = [listeners EXCEPT ![t] =
          IF ev.type # "NOTIFICATION" THEN @
          ELSE LET d == DecodeNotification(ev.data)
               IN IF d.exc # "none" THEN Raise(@, d.exc)
                  ELSE Scan([@ EXCEPT !.notif = d.notif, !.value = d.value,
                                      !.idx = 0, !.fired = <<>>],
                            observations)]
    /\ ListenerFrame

\* the stream raises
StreamFail(t, exc) ==
    /\ Running(t) /\ listeners[t].pc = "streaming"
    /\ listeners' = [listeners EXCEPT ![t] = Raise(@, exc)]
    /\ ListenerFrame

\* the stream ends: `async for` is exhausted
StreamEnd(t) ==
    /\ Running(t) /\ listeners[t].pc = "streaming"
    /\ listeners' = [listeners EXCEPT ![t] = LoopTop(@)]
    /\ ListenerFrame

\* the awaited callback returns: the loop goes on from the iterator's position
CallbackReturn(t) ==
    /\ Running(t) /\ listeners[t].pc = "callback"
    /\ listeners' = [listeners EXCEPT ![t] = Scan(@, observations)]
    /\ ListenerFrame

CallbackRaise(t, exc) ==
    /\ Running(t) /\ listeners[t].pc = "callback"
    /\ listeners' = [listeners EXCEPT ![t] = Raise(@, exc)]
    /\ ListenerFrame

\* asyncio.sleep(5) is over
BackoffWake(t) ==
    /\ Running(t) /\ listeners[t].pc = "backoff"
    /\ listeners' = [listeners EXCEPT ![t] = LoopTop(@)]
    /\ ListenerFrame

\* the CancelledError is swallowed at the await: the task goes on from there
CancelledIgnored(t) ==
    /\ t \in DOMAIN listeners
    /\ listeners[t].must_cancel
    /\ listeners' = [listeners EXCEPT ![t].must_cancel = FALSE]
    /\ ListenerFrame

\* CancelledError is thrown into the task at the await it is suspended in
Cancelled(t) ==
    /\ t \in DOMAIN listeners
    /\ listeners[t].must_cancel
    /\ listeners' = [listeners EXCEPT ![t] = [Cleared(@) EXCEPT !.pc = "cancelled",
                                                !.must_cancel = FALSE, !.delay = 0,
                                                !.exc = "CancelledError"]]
    /\ ListenerFrame

\* -------------------------------------------- directory and poll cycle
\* poll cycles started in one run
MaxCycles == 2
\* entries added to the poll list in one run
MaxPollEntries == 2

\* the registrations the server sees: epA registers, and registers again
Registrations ==
    {[endpoint |-> "epA", registrationId |-> "r1"],
     [endpoint |-> "epA", registrationId |-> "r2"],
     [endpoint |-> "epB", registrationId |-> "r1"]}


\* Lwm2mClient built from one entry of the listing
Lwm2mClient(client_data) ==
    [endpoint |-> client_data.endpoint, registration_id |-> client_data.registrationId]

ClientData(e, r) == [endpoint |-> e, registrationId |-> r]

Lwm2mObjectInstance(o, i) == [object_id |-> o, instance_id |-> i]

\* the directory follows the listing: an entry whose endpoint is no longer
\* listed is dropped
MergeClientsDroppingGone(directory, response) ==
    LET kept == SelectSeq(directory,
                          LAMBDA c : \E k \in 1..Len(response) :
                                         response[k].endpoint = c.endpoint)
        fresh == SelectSeq(response,
                           LAMBDA d : ~\E k \in 1..Len(directory) :
                                          directory[k].endpoint = d.endpoint)
    IN kept \o [k \in 1..Len(fresh) |-> Lwm2mClient(fresh[k])]

\* every listed client appended, known or not
MergeClientsAppendAll(directory, response) ==
    directory \o [i \in 1..Len(response) |-> Lwm2mClient(response[i])]

\* the listing's entries first, then the known clients it does not list
MergeClientsLatestWins(directory, response) ==
    [i \in 1..Len(response) |-> Lwm2mClient(response[i])]
        \o SelectSeq(directory,
                     LAMBDA c : \A i \in 1..Len(response) : response[i].endpoint # c.endpoint)

\* get_clients (230-253): append every listed client whose endpoint no
\* existing entry has; the list object itself is what is returned
RECURSIVE MergeClients(_, _)
MergeClients(directory, response) ==
    IF response = <<>> THEN directory
    ELSE LET client == Lwm2mClient(Head(response))
         IN MergeClients(
                IF \E i \in 1..Len(directory) : directory[i].endpoint = client.endpoint
                THEN directory ELSE Append(directory, client),
                Tail(response))

\* the lists a Snapshot refers to. LeshanLwm2mCoordinatorData(clients=clients, ...)
\* stores the list get_clients returned, which is self.lwm2m_clients itself:
\* clients is a reference to that list, poll_results a list of the cycle's own
NoData == [set |-> FALSE, clients |-> "none", poll_results |-> <<>>]

Deref(ref) == IF ref = "lwm2m_clients" THEN lwm2m_clients ELSE <<>>

\* what a consumer reading coordinator.data sees
SnapshotView == [clients |-> Deref(data.clients), poll_results |-> data.poll_results]

\* the async_update_data call: where it is suspended, its loop position and
\* poll_results, what request answered to get_clients (response: "none" not
\* yet, "list" a listing, "null" a success status with an empty body, "error"
\* a raised error; listing: the entries of that listing), and how the call
\* ended (outcome) with the exception UpdateFailed was raised from (cause)
IdleCycle == [pc |-> "idle", pi |-> 0, ii |-> 0, poll_results |-> <<>>,
              prior |-> [clients |-> <<>>, poll_results |-> <<>>],
              raised |-> 0, outcome |-> "none",
              response |-> "none", listing |-> <<>>, cause |-> "none"]

\* what read() of an instance answers: the resources of the instance
ReadResponses ==
    {<<WireVal(5, "boolean", RawBool(TRUE)), WireVal(6, "INTEGER", RawInt(42))>>,
     <<WireVal(5, "bogus", RawInt(1))>>}

ReadFailures == {"LeshanClientError", "LeshanClientConnectionTimeoutError"}

\* read (290-308): one Lwm2mResourceValue per resource of the response
DecodeResources(resources) ==
    [k \in 1..Len(resources) |->
        Lwm2mResourceValue(resources[k].id, resources[k].type, resources[k].value)]

DecodeFails(resources) ==
    \E k \in 1..Len(resources) : DecodeResources(resources)[k].exc # "none"

PollInit ==
    /\ server_clients = <<>>
    /\ lwm2m_clients = <<>>
    /\ poll_list = <<>>
    /\ cycle = IdleCycle
    /\ data = NoData
    /\ published = [clients |-> <<>>, poll_results |-> <<>>]
    /\ n_cycles = 0
    /\ n_failures = 0

\* a device registers, or registers again with a new registration id
ServerRegister(e, r) ==
    /\ UNCHANGED <<obs_vars, codec_vars, delivery_log, rest_vars>>
    /\ ~\E i \in 1..Len(server_clients) : server_clients[i] = ClientData(e, r)
    /\ server_clients' =
          IF \E i \in 1..Len(server_clients) : server_clients[i].endpoint = e
          THEN [i \in 1..Len(server_clients) |->
                   IF server_clients[i].endpoint = e THEN ClientData(e, r)
                   ELSE server_clients[i]]
          ELSE Append(server_clients, ClientData(e, r))
    /\ UNCHANGED <<lwm2m_clients, poll_list, cycle, data, published, n_cycles, n_failures>>

ServerDeregister(e) ==
    /\ UNCHANGED <<obs_vars, codec_vars, delivery_log, rest_vars>>
    /\ \E i \in 1..Len(server_clients) : server_clients[i].endpoint = e
    /\ server_clients' = SelectSeq(server_clients, LAMBDA x : x.endpoint # e)
    /\ UNCHANGED <<lwm2m_clients, poll_list, cycle, data, published, n_cycles, n_failures>>

\* add_to_poll_list (86-92)
AddToPollList(e, instances) ==
    /\ UNCHANGED <<obs_vars, codec_vars, delivery_log, http_vars, reg_vars, events_seen,
                 tail_vars>>
    /\ Len(poll_list) < MaxPollEntries
    /\ poll_list' = Append(poll_list, [client |-> e, instances |-> instances])
    /\ UNCHANGED <<server_clients, lwm2m_clients, cycle, data, published, n_cycles, n_failures>>

\* what add_to_poll_list is called with
PollInputs ==
    {[client |-> "epA", instances |-> <<Lwm2mObjectInstance(3, 0)>>],
     [client |-> "epB", instances |-> <<Lwm2mObjectInstance(3, 0), Lwm2mObjectInstance(3, 1)>>]}

\* only the first declared instance of every entry read
NextReadFirstInstanceOnly(list, pi, ii) ==
    LET later == {p \in (pi + 1)..Len(list) : Len(list[p].instances) > 0}
    IN IF later = {} THEN <<0, 0>>
       ELSE <<CHOOSE p \in later : \A q \in later : p <= q, 1>>

\* the nested loops of async_update_data (99-100): the position after
\* (pi, ii) in the poll list as it is now, <<0, 0>> when both are exhausted
NextRead(list, pi, ii) ==
    IF pi >= 1 /\ pi <= Len(list) /\ ii + 1 <= Len(list[pi].instances)
    THEN <<pi, ii + 1>>
    ELSE LET later == {p \in (pi + 1)..Len(list) : Len(list[p].instances) > 0}
         IN IF later = {} THEN <<0, 0>>
            ELSE <<CHOOSE p \in later : \A q \in later : p <= q, 1>>

\* async_update_data raises UpdateFailed from the exception e (112-114);
\* coordinator.data stays. c is the call as it stands when e is raised
CycleFails(c, e) ==
    /\ cycle' = [IdleCycle EXCEPT !.prior = c.prior, !.raised = c.raised + 1,
                                  !.outcome = "UpdateFailed", !.cause = e,
                                  !.response = c.response, !.listing = c.listing]
    /\ n_failures' = n_failures + 1
    /\ UNCHANGED <<data, published>>

\* async_update_data returns LeshanLwm2mCoordinatorData(clients, poll_results) (116)
\* and the coordinator stores it as its data
CycleReturns(c, directory, results) ==
    /\ cycle' = [IdleCycle EXCEPT !.prior = c.prior, !.outcome = "returned",
                                  !.response = c.response, !.listing = c.listing]
    /\ data' = [set |-> TRUE, clients |-> "lwm2m_clients", poll_results |-> results]
    /\ published' = [clients |-> directory, poll_results |-> results]
    /\ UNCHANGED n_failures

\* a poll cycle begins: async_update_data awaits get_clients (97)
PollStart ==
    /\ UNCHANGED <<obs_vars, codec_vars, delivery_log, rest_vars>>
    /\ cycle.pc = "idle"
    /\ n_cycles < MaxCycles
    /\ n_cycles' = n_cycles + 1
    /\ cycle' = [IdleCycle EXCEPT !.pc = "get_clients", !.prior = SnapshotView]
    /\ UNCHANGED <<server_clients, lwm2m_clients, poll_list, data, published, n_failures>>

\* get_clients (229-253) once request has answered. outcome is "ok" (a
\* listing), "null" (a success status whose JSON body is null: request
\* returns None) or the error request raised. `for client_data in response`
\* over None raises TypeError before the directory is touched.
GetClients(directory, outcome, listing) ==
    IF outcome = "ok"
    THEN [exc |-> "none", directory |-> MergeClients(directory, listing),
          returned |-> MergeClients(directory, listing)]
    ELSE [exc |-> IF outcome = "null" THEN "TypeError" ELSE outcome,
          directory |-> directory, returned |-> <<>>]

\* what the listing request of get_clients can end with
ListingOutcomes == {"ok", "null"} \cup ReadFailures

\* get_clients answers (229-253), then the first read is awaited (101)
GetClientsReturn(outcome) ==
    LET got == GetClients(lwm2m_clients, outcome, server_clients)
        first == NextRead(poll_list, 0, 0)
        c == [cycle EXCEPT !.response = IF outcome = "ok" THEN "list"
                                        ELSE IF outcome = "null" THEN "null"
                                        ELSE "error",
                           !.listing = IF outcome = "ok" THEN server_clients ELSE <<>>]
    IN /\ cycle.pc = "get_clients"
       /\ UNCHANGED <<obs_vars, codec_vars, delivery_log, rest_vars>>
       /\ UNCHANGED <<server_clients, poll_list, n_cycles>>
       /\ lwm2m_clients' = got.directory
       /\ IF got.exc # "none"
          THEN CycleFails(c, got.exc)
          ELSE IF first = <<0, 0>>
          THEN CycleReturns(c, got.returned, <<>>)
          ELSE /\ cycle' = [c EXCEPT !.pc = "read", !.pi = first[1], !.ii = first[2]]
               /\ UNCHANGED <<data, published, n_failures>>

\* a read answers (101-111): its result is appended, the next read awaited
ReadReturn(resources) ==
    LET entry == poll_list[cycle.pi]
        result == [client |-> entry.client, instance |-> entry.instances[cycle.ii],
                   resources |-> DecodeResources(resources)]
        results == Append(cycle.poll_results, result)
        next == NextRead(poll_list, cycle.pi, cycle.ii)
    IN /\ cycle.pc = "read"
       /\ UNCHANGED <<obs_vars, codec_vars, delivery_log, rest_vars>>
       /\ UNCHANGED <<server_clients, lwm2m_clients, poll_list, n_cycles>>
       /\ IF DecodeFails(resources)
          THEN CycleFails(cycle, "ValueError")
          ELSE IF next = <<0, 0>>
          THEN CycleReturns(cycle, lwm2m_clients, results)
          ELSE /\ cycle' = [cycle EXCEPT !.pi = next[1], !.ii = next[2],
                                         !.poll_results = results]
               /\ UNCHANGED <<data, published, n_failures>>

\* a read raises
ReadRaise(exc) ==
    /\ UNCHANGED <<obs_vars, codec_vars, delivery_log, rest_vars>>
    /\ cycle.pc = "read"
    /\ CycleFails(cycle, exc)
    /\ UNCHANGED <<server_clients, lwm2m_clients, poll_list, n_cycles>>

\* async_get_all_clients (118-120): a directory refresh outside a poll cycle
GetAllClients ==
    /\ UNCHANGED <<obs_vars, codec_vars, delivery_log, rest_vars>>
    /\ lwm2m_clients' = GetClients(lwm2m_clients, "ok", server_clients).directory
    /\ lwm2m_clients' # lwm2m_clients
    /\ UNCHANGED <<server_clients, poll_list, cycle, data, published, n_cycles, n_failures>>

\* --------------------------------------------- request and value calls
\* the kind strings and raw values a resource arrives with
KindStrings ==
    {"string", "integer", "float", "boolean", "opaque", "time", "objlnk",
     "STRING", "INTEGER", "FLOAT", "BOOLEAN", "OPAQUE", "TIME", "OBJLNK",
     "bogus", "", "int", "object-link"}

RawValues ==
    {RawStr(<<"4", "2">>), RawStr(<<"4", ".", "2">>), RawStr(<<"t", "r", "u", "e">>),
     RawStr(<<"f", "a", "l", "s", "e">>),
     RawStr(<<"a", "b", "c">>), RawStr(<<>>), RawInt(42), RawBool(TRUE), RawBool(FALSE)}

ValueInputs == {WireVal(5, k, v) : k \in KindStrings, v \in RawValues}

\* no call is being looked at
CodecIdle ==
    /\ request_call = [in |-> HttpResult("ok", 200, "", FALSE, ""), done |-> TRUE,
                       out |-> Request(HttpResult("ok", 200, "", FALSE, ""))]
    /\ value_call = [in |-> WireVal(5, "string", RawStr(<<>>)), done |-> TRUE,
                     out |-> Lwm2mResourceValue(5, "string", RawStr(<<>>))]

\* a call of request and a construction of a resource value are about to run
CodecInit ==
    /\ \E x \in RequestInputs :
          request_call = [in |-> x, done |-> FALSE,
                          out |-> RequestResult("none", 0, NoContent, NoContent)]
    /\ \E w \in ValueInputs : value_call = [in |-> w, done |-> FALSE, out |-> NoValue]

\* request runs
DoRequest ==
    /\ ~request_call.done
    /\ request_call' = [request_call EXCEPT !.done = TRUE, !.out = Request(request_call.in)]
    /\ UNCHANGED <<obs_vars, poll_vars, value_call, delivery_log, rest_vars>>

\* Lwm2mResourceValue(resource_id=..., type=..., value=...) is constructed
DoDecode ==
    /\ ~value_call.done
    /\ value_call' = [value_call EXCEPT !.done = TRUE,
                         !.out = Lwm2mResourceValue(value_call.in.id, value_call.in.type,
                                                    value_call.in.value)]
    /\ UNCHANGED <<obs_vars, poll_vars, request_call, delivery_log, rest_vars>>

\* ------------------------------------------------ the transport session
\* calls of read / write / request in one run, and calls of close
MaxHttpCalls == 2
MaxCloses == 2

\* the methods that go through request: read, write, and request itself
\* as get_clients and the activation calls use it
Ops == {"read", "write", "request"}

\* the JSON document a read is answered with: whether it has the key
\* "content", and the resources under it
ReadBodies ==
    {[has_content |-> FALSE, resources |-> <<>>]}
        \cup {[has_content |-> TRUE, resources |-> rs] : rs \in ReadResponses}

\* a call that has ended: the method, its number, the session it went
\* through, the HTTP requests it sent, the exchange it got and what it
\* raised ("none": it returned)
CallRecord(op, id, s, sent, x, exc) ==
    [op |-> op, id |-> id, session |-> s, sent |-> sent, exchange |-> x, exc |-> exc]

NoExchange == HttpResult("ok", 200, "", FALSE, "")

\* the exchanges the calls through the session are answered with: success
\* and server error, JSON and text, a body and none, and the exceptions
CallExchanges ==
    {x \in RequestInputs :
        \/ x.transport # "ok"
        \/ x.status \in {200, 500} /\ x.content_type # "" /\ x.text # "oops"}

\* no call made yet
NoCall == CallRecord("none", 0, 0, 0, NoExchange, "none")

\* the client is constructed without a session (78)
HttpInit ==
    /\ session = 0
    /\ sessions = <<>>
    /\ in_flight = {}
    /\ closing = 0
    /\ last_call = NoCall
    /\ n_calls = 0
    /\ n_closes = 0

HttpFrame ==
    UNCHANGED <<obs_vars, poll_vars, codec_vars, delivery_log, reg_vars, coord_vars,
                events_seen, tail_vars>>

\* what the method makes of the result r of its one call of request:
\* read (287-308) takes the values out of the document, write (348-351)
\* wants a response that is not None
CallResult(op, r, body) ==
    IF r.exc # "none" THEN r.exc
    ELSE IF op = "read"
    THEN IF r.returned.kind = "null" THEN "AttributeError"
         ELSE IF r.returned.kind = "data" \/ ~body.has_content THEN "KeyError"
         ELSE IF DecodeFails(body.resources) THEN "ValueError"
         ELSE "none"
    ELSE IF op = "write"
    THEN IF r.returned.kind = "null" THEN "LeshanClientEmptyResponseError" ELSE "none"
    ELSE "none"

\* a call of read / write / request up to its await (379-390): the session
\* is created if there is none, and the HTTP request goes out on it; a
\* closed ClientSession refuses with RuntimeError("Session is closed")
CallStart(op) ==
    LET s == IF session = 0 THEN Len(sessions) + 1 ELSE session
        all == IF session = 0 THEN Append(sessions, "open") ELSE sessions
        id == n_calls + 1
    IN /\ n_calls < MaxHttpCalls
       /\ n_calls' = id
       /\ sessions' = all
       /\ session' = s
       /\ IF all[s] = "closed"
          THEN /\ last_call' = CallRecord(op, id, s, 0, NoExchange, "RuntimeError")
               /\ UNCHANGED in_flight
          ELSE /\ in_flight' = in_flight \cup {[op |-> op, id |-> id, session |-> s, sent |-> 1]}
               /\ UNCHANGED last_call
       /\ UNCHANGED <<closing, n_closes>>
       /\ HttpFrame

\* a failed exchange answered by sending the request once more
CallFinishRetrying(c, x, body) ==
    LET r == Request(x)
    IN /\ c \in in_flight
       /\ IF r.exc # "none" /\ c.sent = 1
          THEN /\ in_flight' = (in_flight \ {c}) \cup {[c EXCEPT !.sent = 2]}
               /\ UNCHANGED last_call
          ELSE /\ in_flight' = in_flight \ {c}
               /\ last_call' = CallRecord(c.op, c.id, c.session, c.sent, x,
                                           CallResult(c.op, r, body))
       /\ UNCHANGED <<session, sessions, closing, n_calls, n_closes>>
       /\ HttpFrame

\* the exchange of call c ends as x: request returns or raises (392-417),
\* and the method with it
CallFinish(c, x, body) ==
    LET r == Request(x)
    IN /\ c \in in_flight
       /\ in_flight' = in_flight \ {c}
       /\ last_call' = CallRecord(c.op, c.id, c.session, c.sent, x,
                                   CallResult(c.op, r, body))
       /\ UNCHANGED <<session, sessions, closing, n_calls, n_closes>>
       /\ HttpFrame

\* close that closes the session and goes on referring to it
CloseStartKeepsSession(suspends) ==
    /\ n_closes < MaxCloses
    /\ n_closes' = n_closes + 1
    /\ ~suspends
    /\ last_call' = CallRecord("close", n_closes + 1, session, 0, NoExchange, "none")
    /\ sessions' = IF session = 0 THEN sessions ELSE [sessions EXCEPT ![session] = "closed"]
    /\ UNCHANGED <<session, closing, in_flight, n_calls>>
    /\ HttpFrame

\* close (569-573) up to the end of `await self._session.close()`: with no
\* session it returns at once; else the session is closed, and the call
\* either goes straight on to `self._session = None` or is suspended first
\* (suspends: the connector has connections to wait for)
CloseStart(suspends) ==
    /\ n_closes < MaxCloses
    /\ n_closes' = n_closes + 1
    /\ IF session = 0
       THEN /\ ~suspends
            /\ last_call' = CallRecord("close", n_closes + 1, 0, 0, NoExchange, "none")
            /\ UNCHANGED <<session, sessions, closing>>
       ELSE /\ sessions' = [sessions EXCEPT ![session] = "closed"]
            /\ IF suspends
               THEN /\ closing' = closing + 1
                    /\ UNCHANGED <<session, last_call>>
               ELSE /\ session' = 0
                    /\ last_call' = CallRecord("close", n_closes + 1, session, 0,
                                                NoExchange, "none")
                    /\ UNCHANGED closing
    /\ UNCHANGED <<in_flight, n_calls>>
    /\ HttpFrame

\* a suspended close resumes: `self._session = None` (573)
CloseFinish ==
    /\ closing > 0
    /\ closing' = closing - 1
    /\ session' = 0
    /\ last_call' = CallRecord("close", n_closes, session, 0, NoExchange, "none")
    /\ UNCHANGED <<sessions, in_flight, n_calls, n_closes>>
    /\ HttpFrame

\* ------------------------------------------------ the registration listener
\* events the registration listener takes off the stream in one run
MaxRegEvents == 3

\* an event of the server-wide stream: its type and its JSON document
\* (json_ok: json.loads accepts it; complete: it has every key the listener
\* reads; instances_ok: "availableInstances" is an object keyed by integers)
RegistrationEvent(type, json_ok, complete, instances_ok, e, r) ==
    [type |-> type, json_ok |-> json_ok, complete |-> complete,
     instances_ok |-> instances_ok, endpoint |-> e, registrationId |-> r]

ServerEvents ==
    {RegistrationEvent("REGISTRATION", TRUE, TRUE, TRUE, d.endpoint, d.registrationId) :
        d \in Registrations}
    \cup {RegistrationEvent("REGISTRATION", FALSE, FALSE, FALSE, "", ""),
          RegistrationEvent("REGISTRATION", TRUE, FALSE, TRUE, "epA", "r1"),
          RegistrationEvent("REGISTRATION", TRUE, TRUE, FALSE, "epA", "r1")}
    \cup {RegistrationEvent(ty, TRUE, TRUE, TRUE, "epA", "r1") :
              ty \in {"UPDATED", "registration"}}

NoClient == [endpoint |-> "", registration_id |-> ""]

\* listen_registrations (173-188): json.loads of the data, then Lwm2mClient
\* from its keys; __post_init__ walks availableInstances.items()
DecodeRegistration(ev) ==
    IF ~ev.json_ok THEN [exc |-> "ValueError", client |-> NoClient]
    ELSE IF ~ev.complete THEN [exc |-> "KeyError", client |-> NoClient]
    ELSE IF ~ev.instances_ok THEN [exc |-> "AttributeError", client |-> NoClient]
    ELSE [exc |-> "none", client |-> Lwm2mClient(ClientData(ev.endpoint, ev.registrationId))]

\* what the caller's callback can raise
RegCallbackExceptions == {"RuntimeError", "TimeoutError"}

\* the except clauses of the endpoint listener put in place of these
RegExceptHandlerOfEndpointListener(exc) ==
    IF exc = "TimeoutError" THEN "pass"
    ELSE IF exc \in {"ClientError", "LeshanClientError", "LeshanClientConnectionError",
                     "LeshanClientConnectionTimeoutError"} THEN "sleep"
    ELSE "propagate"

\* the except clauses of listen_registrations (191-197): TimeoutError is
\* passed over, every other Exception is logged and slept on
RegExceptHandler(exc) ==
    IF exc = "TimeoutError" THEN "pass" ELSE "sleep"

\* an exception raised inside the try block of listen_registrations
RegRaise(exc) ==
    LET h == RegExceptHandler(exc)
    IN IF h = "pass" THEN [pc |-> "connecting", exc |-> exc, delay |-> 0]
       ELSE IF h = "sleep" THEN [pc |-> "backoff", exc |-> exc, delay |-> BackoffDelay]
       ELSE [pc |-> "failed", exc |-> exc, delay |-> 0]

RegFrame ==
    UNCHANGED <<obs_vars, poll_vars, codec_vars, delivery_log, http_vars, coord_vars,
                events_seen, tail_vars>>

RegInit ==
    /\ registration = [pc |-> "created", exc |-> "none", delay |-> 0]
    /\ registration_events = <<>>
    /\ registration_calls = <<>>

\* the coroutine runs: `while True`, the entry into EventSource
RegStart ==
    /\ registration.pc = "created"
    /\ registration' = [registration EXCEPT !.pc = "connecting"]
    /\ UNCHANGED <<registration_events, registration_calls>>
    /\ RegFrame

RegConnectOk ==
    /\ registration.pc = "connecting"
    /\ registration' = [pc |-> "streaming", exc |-> "none", delay |-> 0]
    /\ UNCHANGED <<registration_events, registration_calls>>
    /\ RegFrame

RegConnectFail(exc) ==
    /\ registration.pc = "connecting"
    /\ registration' = RegRaise(exc)
    /\ UNCHANGED <<registration_events, registration_calls>>
    /\ RegFrame

\* known to the Directory, or reported to the callback before: not reported
RegEventDeduplicating(ev) ==
    LET d == DecodeRegistration(ev)
        known == \/ \E i \in DOMAIN lwm2m_clients : lwm2m_clients[i].endpoint = ev.endpoint
                 \/ \E c \in DOMAIN registration_calls :
                        registration_calls[c].client.endpoint = ev.endpoint
    IN /\ registration.pc = "streaming"
       /\ Len(registration_events) < MaxRegEvents
       /\ registration_events' = Append(registration_events, ev)
       /\ IF ev.type # "REGISTRATION" \/ (d.exc = "none" /\ known)
          THEN UNCHANGED <<registration, registration_calls>>
          ELSE IF d.exc # "none"
          THEN registration' = RegRaise(d.exc) /\ UNCHANGED registration_calls
          ELSE /\ registration' = [registration EXCEPT !.pc = "callback"]
               /\ registration_calls' =
                      Append(registration_calls,
                             [n |-> Len(registration_events'), client |-> d.client])
       /\ RegFrame

\* one event off the server-wide stream (165-190): ignored unless its type
\* is REGISTRATION, else decoded and handed to the awaited callback
RegEvent(ev) ==
    LET d == DecodeRegistration(ev)
    IN /\ registration.pc = "streaming"
       /\ Len(registration_events) < MaxRegEvents
       /\ registration_events' = Append(registration_events, ev)
       /\ IF ev.type # "REGISTRATION"
          THEN UNCHANGED <<registration, registration_calls>>
          ELSE IF d.exc # "none"
          THEN registration' = RegRaise(d.exc) /\ UNCHANGED registration_calls
          ELSE /\ registration' = [registration EXCEPT !.pc = "callback"]
               /\ registration_calls' =
                      Append(registration_calls,
                             [n |-> Len(registration_events'), client |-> d.client])
       /\ RegFrame

RegStreamFail(exc) ==
    /\ registration.pc = "streaming"
    /\ registration' = RegRaise(exc)
    /\ UNCHANGED <<registration_events, registration_calls>>
    /\ RegFrame

\* the stream ends: back to the top of `while True`
RegStreamEnd ==
    /\ registration.pc = "streaming"
    /\ registration' = [registration EXCEPT !.pc = "connecting"]
    /\ UNCHANGED <<registration_events, registration_calls>>
    /\ RegFrame

RegCallbackReturn ==
    /\ registration.pc = "callback"
    /\ registration' = [registration EXCEPT !.pc = "streaming"]
    /\ UNCHANGED <<registration_events, registration_calls>>
    /\ RegFrame

RegCallbackRaise(exc) ==
    /\ registration.pc = "callback"
    /\ registration' = RegRaise(exc)
    /\ UNCHANGED <<registration_events, registration_calls>>
    /\ RegFrame

\* asyncio.sleep(5) is over
RegBackoffWake ==
    /\ registration.pc = "backoff"
    /\ registration' = [registration EXCEPT !.pc = "connecting", !.delay = 0]
    /\ UNCHANGED <<registration_events, registration_calls>>
    /\ RegFrame

\* --------------------------------------------------------- coordinators
\* coordinator instances constructed in one run
MaxCoordinators == 2

\* one coordinator is there from the start
CoordInit ==
    /\ coordinators = 1
    /\ added_by = <<>>

\* self._poll_list as instance c reads it: no instance ever assigns the
\* attribute, so the lookup ends at the class attribute, one list for all
PollListOf(c) == poll_list

\* LeshanLwm2mCoordinator(hass, config_entry) once more (66-84). The cycle,
\* the data and the client of the model are from here on those of the new
\* instance: it has no data, and its own LeshanClient with an empty
\* directory. The instances before it live on and go on adding entries.
Construct ==
    /\ coordinators < MaxCoordinators
    /\ cycle.pc = "idle"
    /\ coordinators' = coordinators + 1
    /\ lwm2m_clients' = <<>>
    /\ data' = NoData
    /\ published' = [clients |-> <<>>, poll_results |-> <<>>]
    /\ cycle' = IdleCycle
    /\ UNCHANGED <<server_clients, poll_list, n_cycles, n_failures, added_by>>
    /\ UNCHANGED <<obs_vars, codec_vars, delivery_log, http_vars, reg_vars, events_seen,
                 tail_vars>>

\* add_to_poll_list called on instance c
AddToPollListOn(c, e, instances) ==
    /\ AddToPollList(e, instances)
    /\ added_by' = Append(added_by, c)
    /\ UNCHANGED coordinators

\* ------------------------------------------------------- specifications
ObsNext ==
    \/ \E in \in ObserveInputs, o \in RequestOutcomes : Observe(in, o) /\ UNCHANGED <<delivery_log, rest_vars>>
    \/ \E t \in Targets : CancelStart(t) /\ UNCHANGED <<delivery_log, rest_vars>>
    \/ \E x \in BagToSet(cancels), o \in RequestOutcomes : CancelFinish(x, o) /\ UNCHANGED <<delivery_log, rest_vars>>
    \/ \E t \in DOMAIN listeners : ListenerStart(t) /\ UNCHANGED <<delivery_log, rest_vars>>
    \/ \E t \in DOMAIN listeners : ConnectOk(t) /\ UNCHANGED <<delivery_log, rest_vars>>
    \/ \E t \in DOMAIN listeners, x \in StreamExceptions : ConnectFail(t, x) /\ UNCHANGED <<delivery_log, rest_vars>>
    \/ \E t \in DOMAIN listeners : \E ev \in StreamEvents(listeners[t].endpoint) : StreamEvent(t, ev) /\ UNCHANGED <<delivery_log, rest_vars>>
    \/ \E t \in DOMAIN listeners, x \in StreamExceptions : StreamFail(t, x) /\ UNCHANGED <<delivery_log, rest_vars>>
    \/ \E t \in DOMAIN listeners : StreamEnd(t) /\ UNCHANGED <<delivery_log, rest_vars>>
    \/ \E t \in DOMAIN listeners : CallbackReturn(t) /\ UNCHANGED <<delivery_log, rest_vars>>
    \/ \E t \in DOMAIN listeners, x \in CallbackExceptions : CallbackRaise(t, x) /\ UNCHANGED <<delivery_log, rest_vars>>
    \/ \E t \in DOMAIN listeners : BackoffWake(t) /\ UNCHANGED <<delivery_log, rest_vars>>
    \/ \E t \in DOMAIN listeners : Cancelled(t) /\ UNCHANGED <<delivery_log, rest_vars>>

PollNext ==
    \/ \E d \in Registrations : ServerRegister(d.endpoint, d.registrationId)
    \/ \E e \in Endpoints : ServerDeregister(e)
    \/ \E in \in PollInputs : AddToPollList(in.client, in.instances) /\ UNCHANGED coord_vars
    \/ PollStart
    \/ \E o \in ListingOutcomes : GetClientsReturn(o)
    \/ \E rs \in ReadResponses : ReadReturn(rs)
    \/ \E x \in ReadFailures : ReadRaise(x)
    \/ GetAllClients

LogInit == delivery_log = <<>> /\ events_seen = <<>>

\* ------------------------------------------------------ one call of read
\* resource_id: int | None = None
None == -1

\* the resource ids read is called with
ResourceIds == {None, 0, 1, 5}

\* the instances read is called on: [object_id, instance_id]
ReadInstances == {<<3, 0>>, <<3, 1>>, <<6, 0>>, <<6, 1>>}

\* the resources the device holds in the instance that is read
InstanceResources ==
    {<<WireVal(0, "STRING", RawStr(<<"a", "b", "c">>)), WireVal(1, "INTEGER", RawInt(42)),
       WireVal(5, "BOOLEAN", RawBool(TRUE))>>,
     <<WireVal(0, "INTEGER", RawInt(42)), WireVal(1, "STRING", RawStr(<<>>)),
       WireVal(5, "FLOAT", RawStr(<<"4", ".", "2">>))>>,
     <<WireVal(0, "BOOLEAN", RawBool(FALSE)), WireVal(1, "OPAQUE", RawStr(<<"4", "2">>)),
       WireVal(5, "TIME", RawInt(42))>>}

\* the path segments after the host
InstancePath(e, inst) == <<"api", "clients", e, inst[1], inst[2]>>

ResourcePath(e, inst, r) == Append(InstancePath(e, inst), r)

\* read (280-285): the path read requests
ReadPath(e, inst, resource_id) ==
    IF resource_id # None /\ resource_id # 0
    THEN ResourcePath(e, inst, resource_id)
    ELSE InstancePath(e, inst)

\* the server's answer to a read of path: the resource named by the path,
\* or all resources of the instance
ServerContent(path, resources) ==
    IF Len(path) = 6
    THEN [single |-> TRUE,
          resources |-> SelectSeq(resources, LAMBDA w : w.id = path[6])]
    ELSE [single |-> FALSE, resources |-> resources]

\* read (290-308): the values built from the content of the response
ReadValues(content) == DecodeResources(content.resources)

NoRead ==
    [pc |-> "idle", endpoint |-> "", instance |-> <<0, 0>>, resource_id |-> None,
     path |-> <<>>, held |-> <<>>, values |-> <<>>]

ReadIdle == read_call = NoRead

ReadFrame ==
    UNCHANGED <<obs_vars, poll_vars, codec_vars, delivery_log, http_vars, reg_vars,
                coord_vars, events_seen, known_clients, flows>>

\* read up to its await: the request for the path is sent
ReadStart(e, inst, resource_id) ==
    /\ read_call.pc # "sent"
    /\ read_call' = [NoRead EXCEPT !.pc = "sent", !.endpoint = e, !.instance = inst,
                                   !.resource_id = resource_id,
                                   !.path = ReadPath(e, inst, resource_id)]
    /\ ReadFrame

\* the response arrives and read returns its values
ReadFinish(resources) ==
    /\ read_call.pc = "sent"
    /\ read_call' = [read_call EXCEPT !.pc = "returned", !.held = resources,
                         !.values = ReadValues(ServerContent(read_call.path, resources))]
    /\ ReadFrame

NextReadCall ==
    \/ \E e \in Endpoints, inst \in ReadInstances, r \in ResourceIds : ReadStart(e, inst, r)
    \/ \E resources \in InstanceResources : ReadFinish(resources)

\* ------------------------------ the integration's registration handler
\* discovery flows created in one run
MaxFlows == 3
\* entries of known_clients when the handler runs
MaxKnown == 2

\* the devices that register
RegisteringClients == {Lwm2mClient(r) : r \in Registrations}

\* the endpoint string as the Python object the membership test is given
StrObject(s) == [cls |-> "str", str |-> s]

\* Lwm2mClient.__eq__(self, value)
Lwm2mClientEq(self, value) ==
    /\ value.cls = "Lwm2mClient"
    /\ value.client.endpoint = self.endpoint

\* `x in list` for a list of Lwm2mClient: str.__eq__ does not know the
\* class, so the comparison is decided by Lwm2mClient.__eq__
In(x, list) == \E i \in DOMAIN list : Lwm2mClientEq(list[i], x)

\* known_clients: list[Lwm2mClient] = field(default_factory=list)
HandlerInit == known_clients = <<>> /\ flows = <<>>

\* the lists of Lwm2mClient the runtime data can hold
KnownClientLists ==
    UNION {[1..n -> RegisteringClients] : n \in 0..MaxKnown}

HandlerFrame ==
    UNCHANGED <<obs_vars, poll_vars, codec_vars, delivery_log, http_vars, reg_vars,
                coord_vars, events_seen, read_call>>

\* _async_handle_client_registration(client) (59-75)
HandleClientRegistration(client) ==
    /\ Len(flows) < MaxFlows
    /\ flows' = IF ~In(StrObject(client.endpoint), known_clients)
                THEN Append(flows, client)
                ELSE flows
    /\ UNCHANGED known_clients
    /\ HandlerFrame

NextHandler == \E c \in RegisteringClients : HandleClientRegistration(c)

\* the handler on every list of known clients
InitHandler ==
    /\ ObsInit /\ PollInit /\ CodecIdle /\ LogInit /\ HttpInit /\ RegInit /\ CoordInit
    /\ ReadIdle
    /\ known_clients \in KnownClientLists
    /\ flows = <<>>

Init ==
    /\ ObsInit /\ PollInit /\ CodecIdle /\ LogInit /\ HttpInit /\ RegInit /\ CoordInit
    /\ ReadIdle /\ HandlerInit

\* the subscription registry and its listeners
Next == ObsNext

Spec == Init /\ [][Next]_vars

\* read called over and over
SpecRead == Init /\ [][NextReadCall]_vars

\* the registration handler called over and over
SpecHandler == InitHandler /\ [][NextHandler]_vars

\* the directory and the polling coordinator
NextPoll == PollNext

SpecPoll == Init /\ [][NextPoll]_vars

\* the polling coordinator as the only caller of get_clients
NextCycle ==
    \/ \E d \in Registrations : ServerRegister(d.endpoint, d.registrationId)
    \/ \E e \in Endpoints : ServerDeregister(e)
    \/ \E in \in PollInputs : AddToPollList(in.client, in.instances) /\ UNCHANGED coord_vars
    \/ PollStart
    \/ \E o \in ListingOutcomes : GetClientsReturn(o)
    \/ \E rs \in ReadResponses : ReadReturn(rs)
    \/ \E x \in ReadFailures : ReadRaise(x)

SpecCycle == Init /\ [][NextCycle]_vars

\* ------------------------------------------- the stream of one endpoint
\* entries the log of callback invocations is kept for
MaxLog == 4

\* the observe calls on the endpoint whose stream is followed
StreamObserveInputs == {in \in ObserveInputs : in.target.endpoint = "epA"}

\* the ordinal of the notification task t delivered last (0: none yet)
LastN(t) ==
    LET ks == {k \in DOMAIN delivery_log : delivery_log[k].task = t}
    IN IF ks = {} THEN 0
       ELSE delivery_log[CHOOSE k \in ks : \A m \in ks : m <= k].n

LogEntry(t, n, kind, o, notif) ==
    [task |-> t, n |-> n, kind |-> kind, id |-> o.id, notif |-> notif]

\* the callback task t was suspended in has ended with this step
Ends(t) ==
    LET L == listeners[t]
    IN IF L.pc = "callback"
       THEN <<LogEntry(t, LastN(t), "end", L.fired[Len(L.fired)], L.notif)>>
       ELSE <<>>

\* the callbacks this step of task t has started, for its n-th notification
Starts(t, n) ==
    LET L == listeners[t]
        M == listeners'[t]
        base == IF L.pc = "callback" THEN Len(L.fired) ELSE 0
    IN [k \in 1..(Len(M.fired) - base) |->
           LogEntry(t, n, "start", M.fired[base + k], M.notif)]

\* the step of task t is entered in the log; fresh: it took a notification
\* off the stream
Logged(t, fresh) ==
    LET n == IF fresh THEN LastN(t) + 1 ELSE LastN(t)
        entries == Ends(t) \o Starts(t, n)
    IN /\ Len(delivery_log) + Len(entries) <= MaxLog
       /\ delivery_log' = delivery_log \o entries
       /\ UNCHANGED rest_vars

NextStream ==
    \/ \E in \in StreamObserveInputs, o \in RequestOutcomes :
          Observe(in, o) /\ UNCHANGED <<delivery_log, rest_vars>>
    \/ \E t \in DOMAIN listeners : ListenerStart(t) /\ UNCHANGED <<delivery_log, rest_vars>>
    \/ \E t \in DOMAIN listeners : ConnectOk(t) /\ UNCHANGED <<delivery_log, rest_vars>>
    \/ \E t \in DOMAIN listeners, x \in StreamExceptions :
          ConnectFail(t, x) /\ UNCHANGED <<delivery_log, rest_vars>>
    \/ \E t \in DOMAIN listeners : \E ev \in StreamEvents(listeners[t].endpoint) :
          StreamEvent(t, ev) /\ Logged(t, TRUE)
    \/ \E t \in DOMAIN listeners, x \in StreamExceptions :
          StreamFail(t, x) /\ UNCHANGED <<delivery_log, rest_vars>>
    \/ \E t \in DOMAIN listeners : StreamEnd(t) /\ UNCHANGED <<delivery_log, rest_vars>>
    \/ \E t \in DOMAIN listeners : CallbackReturn(t) /\ Logged(t, FALSE)
    \/ \E t \in DOMAIN listeners, x \in CallbackExceptions :
          CallbackRaise(t, x) /\ Logged(t, FALSE)
    \/ \E t \in DOMAIN listeners : BackoffWake(t) /\ UNCHANGED <<delivery_log, rest_vars>>

\* the listener of one endpoint with the callbacks it invokes logged
SpecStream == Init /\ [][NextStream]_vars

\* ------------------------------- one endpoint, observe between deliveries
\* the resources of the endpoint whose stream is followed
StreamTargets == {t \in Targets : t.endpoint = "epA"}

\* some listener is suspended in a callback
Delivering == \E t \in DOMAIN listeners : listeners[t].pc = "callback"

\* the registry and the listener of one endpoint, with callers that call
\* observe only while no notification is being delivered (cancel_observe
\* at any time): the Subscriptions registered when a delivery ends were
\* all registered when the notification arrived
NextSettled ==
    \/ \E in \in StreamObserveInputs, o \in RequestOutcomes :
          ~Delivering /\ Observe(in, o) /\ UNCHANGED <<delivery_log, rest_vars>>
    \/ \E t \in StreamTargets : CancelStart(t) /\ UNCHANGED <<delivery_log, rest_vars>>
    \/ \E x \in BagToSet(cancels), o \in RequestOutcomes :
          CancelFinish(x, o) /\ UNCHANGED <<delivery_log, rest_vars>>
    \/ \E t \in DOMAIN listeners : ListenerStart(t) /\ UNCHANGED <<delivery_log, rest_vars>>
    \/ \E t \in DOMAIN listeners : ConnectOk(t) /\ UNCHANGED <<delivery_log, rest_vars>>
    \/ \E t \in DOMAIN listeners, x \in StreamExceptions :
          ConnectFail(t, x) /\ UNCHANGED <<delivery_log, rest_vars>>
    \/ \E t \in DOMAIN listeners : \E ev \in StreamEvents(listeners[t].endpoint) :
          StreamEvent(t, ev) /\ UNCHANGED <<delivery_log, rest_vars>>
    \/ \E t \in DOMAIN listeners, x \in StreamExceptions :
          StreamFail(t, x) /\ UNCHANGED <<delivery_log, rest_vars>>
    \/ \E t \in DOMAIN listeners : StreamEnd(t) /\ UNCHANGED <<delivery_log, rest_vars>>
    \/ \E t \in DOMAIN listeners : CallbackReturn(t) /\ UNCHANGED <<delivery_log, rest_vars>>
    \/ \E t \in DOMAIN listeners, x \in CallbackExceptions :
          CallbackRaise(t, x) /\ UNCHANGED <<delivery_log, rest_vars>>
    \/ \E t \in DOMAIN listeners : BackoffWake(t) /\ UNCHANGED <<delivery_log, rest_vars>>
    \/ \E t \in DOMAIN listeners : Cancelled(t) /\ UNCHANGED <<delivery_log, rest_vars>>

SpecSettled == Init /\ [][NextSettled]_vars

\* Task.cancel() schedules the task's next step on the event loop, which
\* runs it: the CancelledError is delivered
CancelFairness ==
    \A t \in 1..MaxTasks : WF_vars(Cancelled(t) /\ UNCHANGED <<delivery_log, rest_vars>>)

SpecSettledLive == Init /\ [][NextSettled]_vars /\ CancelFairness

\* ------------------------------- the registration listener and the directory
RegNext ==
    \/ RegStart
    \/ RegConnectOk
    \/ \E x \in StreamExceptions : RegConnectFail(x)
    \/ \E ev \in ServerEvents : RegEvent(ev)
    \/ \E x \in StreamExceptions : RegStreamFail(x)
    \/ RegStreamEnd
    \/ RegCallbackReturn
    \/ \E x \in RegCallbackExceptions : RegCallbackRaise(x)
    \/ RegBackoffWake

NextRegistrations ==
    \/ RegNext
    \/ \E d \in Registrations : ServerRegister(d.endpoint, d.registrationId)
    \/ GetAllClients

SpecRegistrations == Init /\ [][NextRegistrations]_vars

\* the started coroutine runs, a sleep ends, a callback returns or raises,
\* and of the attempts to connect, made again and again, one succeeds
RegFairness ==
    /\ WF_vars(RegStart)
    /\ WF_vars(RegBackoffWake)
    /\ WF_vars(RegCallbackReturn \/ \E x \in RegCallbackExceptions : RegCallbackRaise(x))
    /\ SF_vars(RegConnectOk)

\* the registration listener by itself, running on
SpecRegistrationsLive == Init /\ [][RegNext]_vars /\ RegFairness

\* ------------------------------------------- calls through the session
\* the calls through the session of a client that has, or has not, one
\* Subscription in its registry and one device in its Directory
NextSession ==
    \/ \E op \in Ops : CallStart(op)
    \/ \E c \in in_flight, x \in CallExchanges :
          \E body \in IF c.op = "read" THEN ReadBodies
                       ELSE {[has_content |-> FALSE, resources |-> <<>>]} :
              CallFinish(c, x, body)
    \/ \E suspends \in BOOLEAN : CloseStart(suspends)
    \/ CloseFinish
    \/ /\ n_observes = 0
       /\ Observe([target |-> Target("epA", 3, 0, 5), callback |-> "c1"], "ok")
       /\ UNCHANGED <<delivery_log, rest_vars>>
    \/ ServerRegister("epA", "r1")
    \/ GetAllClients

SpecSession == Init /\ [][NextSession]_vars

\* ---------------------------------------------- more than one coordinator
\* the poll cycles of the instance constructed last, with every instance
\* adding to its poll list
NextCoordinators ==
    \/ Construct
    \/ \E c \in 1..coordinators, in \in PollInputs : AddToPollListOn(c, in.client, in.instances)
    \/ ServerRegister("epA", "r1")
    \/ PollStart
    \/ \E o \in ListingOutcomes : GetClientsReturn(o)
    \/ \E rs \in ReadResponses : ReadReturn(rs)
    \/ \E x \in ReadFailures : ReadRaise(x)

SpecCoordinators == Init /\ [][NextCoordinators]_vars

\* ------------------------------------------- the events of one stream
\* events of the stream entered in events_seen in one run
MaxSeen == 3

\* the event task t takes off its stream is entered in events_seen
Seen(t, ev) ==
    /\ Len(events_seen) < MaxSeen
    /\ events_seen' = Append(events_seen, [task |-> t, type |-> ev.type])
    /\ UNCHANGED <<delivery_log, http_vars, reg_vars, coord_vars, tail_vars>>

\* the listener of one endpoint with the events it takes off the stream
NextEvents ==
    \/ \E in \in StreamObserveInputs, o \in RequestOutcomes :
          Observe(in, o) /\ UNCHANGED <<delivery_log, rest_vars>>
    \/ \E t \in DOMAIN listeners : ListenerStart(t) /\ UNCHANGED <<delivery_log, rest_vars>>
    \/ \E t \in DOMAIN listeners : ConnectOk(t) /\ UNCHANGED <<delivery_log, rest_vars>>
    \/ \E t \in DOMAIN listeners, x \in StreamExceptions :
          ConnectFail(t, x) /\ UNCHANGED <<delivery_log, rest_vars>>
    \/ \E t \in DOMAIN listeners : \E ev \in StreamEvents(listeners[t].endpoint) :
          StreamEvent(t, ev) /\ Seen(t, ev)
    \/ \E t \in DOMAIN listeners, x \in StreamExceptions :
          StreamFail(t, x) /\ UNCHANGED <<delivery_log, rest_vars>>
    \/ \E t \in DOMAIN listeners : StreamEnd(t) /\ UNCHANGED <<delivery_log, rest_vars>>
    \/ \E t \in DOMAIN listeners : CallbackReturn(t) /\ UNCHANGED <<delivery_log, rest_vars>>
    \/ \E t \in DOMAIN listeners, x \in CallbackExceptions :
          CallbackRaise(t, x) /\ UNCHANGED <<delivery_log, rest_vars>>
    \/ \E t \in DOMAIN listeners : BackoffWake(t) /\ UNCHANGED <<delivery_log, rest_vars>>

SpecEvents == Init /\ [][NextEvents]_vars

\* the transport and the value codec, each on one input
InitCodec ==
    /\ ObsInit /\ PollInit /\ CodecInit /\ LogInit /\ HttpInit /\ RegInit /\ CoordInit
    /\ ReadIdle /\ HandlerInit

NextCodec == DoRequest \/ DoDecode

SpecCodec == InitCodec /\ [][NextCodec]_vars

\* ================================================================ claims
\* endpoints whose registered listener task has not terminated
LiveListeners ==
    {e \in Endpoints :
        /\ endpoint_notification_tasks[e] # 0
        /\ listeners[endpoint_notification_tasks[e]].pc \notin Terminated}

\* the distinct endpoints of the current Subscriptions
SubscribedEndpoints == {observations[i].endpoint : i \in DOMAIN observations}

\* listener tasks ever created for endpoint e
TasksCreated(e) == Cardinality({t \in DOMAIN listeners : listeners[t].endpoint = e})

\* Subscriptions of endpoint e in a list
EndpointCount(list, e) == Cardinality({i \in DOMAIN list : list[i].endpoint = e})

\* C1: in every reachable state the endpoints with a live listener (a
\* registered task that has not terminated) are exactly the endpoints of the
\* current Subscriptions.
C1_LiveListenersAreSubscribedEndpoints == LiveListeners = SubscribedEndpoints

\* C2: as long as no cancel_observe has been called, every endpoint with at
\* least one Subscription has had exactly one listener task created for it,
\* however many observe calls were made, and an endpoint without any has none.
C2_OneListenerPerEndpoint ==
    ~cancel_called =>
        \A e \in Endpoints :
            TasksCreated(e) = IF e \in SubscribedEndpoints THEN 1 ELSE 0

\* three observe calls, two endpoints' worth of resources, still one task for epA
C2_Witness ==
    /\ ~cancel_called
    /\ Len(observations) = 3
    /\ \A i \in DOMAIN observations : observations[i].endpoint = "epA"
    /\ \E i, j \in DOMAIN observations :
          observations[i].resource_id # observations[j].resource_id
    /\ TasksCreated("epA") = 1

\* C3: a step that removes a Subscription of endpoint e either removes the
\* last one, and then the endpoint's stop flag is set, its task is cancelled
\* and both leave the registries; or leaves another one, and then the stop
\* flag stays unset, the task stays registered and the listener is untouched.
C3_CancelStopsOnlyOnLast ==
    [][\A e \in Endpoints :
          EndpointCount(observations', e) < EndpointCount(observations, e) =>
              LET tk == endpoint_notification_tasks[e]
              IN /\ tk # 0
                 /\ endpoint_notification_stop_events[e] = tk
                 /\ IF EndpointCount(observations', e) = 0
                    THEN /\ listeners'[tk].stop
                         /\ listeners'[tk].must_cancel \/ listeners[tk].pc \in Terminated
                         /\ endpoint_notification_tasks'[e] = 0
                         /\ endpoint_notification_stop_events'[e] = 0
                    ELSE /\ ~listeners'[tk].stop
                         /\ listeners' = listeners
                         /\ endpoint_notification_tasks'[e] = tk
                         /\ endpoint_notification_stop_events'[e] = tk]_vars

\* two cancels on the only endpoint observed: the first left the listener,
\* the second stopped it
C3_Witness ==
    /\ Len(listeners) = 1
    /\ n_observes - Len(observations) = 2
    /\ listeners[1].stop
    /\ listeners[1].pc = "cancelled"
    /\ endpoint_notification_tasks[listeners[1].endpoint] = 0

\* the (endpoint, object, instance, resource) the server can notify about
\* on the stream of endpoint e
NotifiedTuples(e) ==
    {[ep |-> t.endpoint, object_id |-> t.object_id, instance_id |-> t.instance_id,
      resource_id |-> t.resource_id] : t \in NotifiedTargets(e) \cup {Target(e, 3, 0, 6)}}

\* C4: while a notification is delivered, every Subscription whose callback
\* was invoked for it has the notification's endpoint, object id, instance id
\* and resource id; the notification is the one the event carried; a
\* notification for resource 5 with {id: 5, type: "boolean", value: "true"}
\* is delivered with the value true.
C4_DeliveryMatchesFourTuple ==
    \A t \in DOMAIN listeners :
        listeners[t].pc = "callback" =>
            /\ listeners[t].notif \in NotifiedTuples(listeners[t].endpoint)
            /\ Len(listeners[t].fired) >= 1
            /\ \A k \in DOMAIN listeners[t].fired :
                  /\ listeners[t].fired[k].endpoint = listeners[t].notif.ep
                  /\ listeners[t].fired[k].object_id = listeners[t].notif.object_id
                  /\ listeners[t].fired[k].instance_id = listeners[t].notif.instance_id
                  /\ listeners[t].fired[k].resource_id = listeners[t].notif.resource_id
            /\ listeners[t].notif.resource_id = 5 =>
                  listeners[t].value = [exc |-> "none", resource_id |-> 5,
                                        type |-> "boolean", value |-> RawBool(TRUE)]

\* Subscriptions for resources 5 and 6 of epA/3/0, a notification for
\* resource 5: only the resource-5 callback is running
C4_Witness ==
    \E t \in DOMAIN listeners :
        /\ listeners[t].pc = "callback"
        /\ listeners[t].notif = [ep |-> "epA", object_id |-> 3, instance_id |-> 0,
                                 resource_id |-> 5]
        /\ Len(observations) = 2
        /\ observations[1].resource_id = 6 /\ observations[1].endpoint = "epA"
        /\ observations[2].resource_id = 5 /\ observations[2].endpoint = "epA"
        /\ listeners[t].fired = <<observations[2]>>
        /\ listeners[t].value.value = RawBool(TRUE)

\* C5: when a delivery loop finishes, every Subscription that matches the
\* notification and is registered at that moment has had its callback invoked
\* exactly once for it.
C5_NoNotificationDropped ==
    [][\A t \in DOMAIN listeners :
          (listeners[t].pc = "callback" /\ listeners'[t].pc = "streaming") =>
              \A i \in DOMAIN observations' :
                  Matches(observations'[i], listeners[t].notif) =>
                      Cardinality({k \in DOMAIN listeners[t].fired :
                                      listeners[t].fired[k].id = observations'[i].id}) = 1]_vars

\* C6: a timeout of the stream takes the listener from Streaming straight to
\* Connecting, with no sleep, and changes neither the Subscription list nor
\* the task and stop-event registries.
C6_TimeoutReconnectsAtOnce ==
    [][\A t \in DOMAIN listeners :
          (/\ listeners[t].pc = "streaming"
           /\ listeners'[t].pc # "streaming"
           /\ listeners'[t].exc = "TimeoutError") =>
              /\ listeners'[t].pc = "connecting"
              /\ listeners'[t].delay = 0
              /\ observations' = observations
              /\ endpoint_notification_tasks' = endpoint_notification_tasks
              /\ endpoint_notification_stop_events' = endpoint_notification_stop_events]_vars

\* a listener reconnecting after a timeout, its Subscription still there
C6_Witness ==
    \E t \in DOMAIN listeners :
        /\ listeners[t].pc = "connecting"
        /\ listeners[t].exc = "TimeoutError"
        /\ listeners[t].delay = 0
        /\ endpoint_notification_tasks[listeners[t].endpoint] = t
        /\ listeners[t].endpoint \in SubscribedEndpoints

\* the errors of the stream other than a timeout: transport and decode errors
StreamErrors == {"ClientError", "ValueError", "KeyError", "IndexError"}

\* C7: a transport or decode error met while connecting or streaming puts the
\* listener into the backoff sleep of 5, still running, its Subscriptions
\* still registered.
C7_ErrorsBackOff ==
    [][\A t \in DOMAIN listeners :
          (/\ listeners[t].pc \in {"connecting", "streaming"}
           /\ listeners'[t].pc \notin {"connecting", "streaming"}
           /\ listeners'[t].exc \in StreamErrors) =>
              /\ listeners'[t].pc = "backoff"
              /\ listeners'[t].delay = BackoffDelay
              /\ observations' = observations]_vars

\* C8: a listener task ends only by explicit cancellation: it never ends with
\* an exception caused by the stream (a stream error or an event's payload),
\* and it leaves its loop only with its stop flag set.
C8_StopsOnlyWhenCancelled ==
    \A t \in DOMAIN listeners :
        /\ listeners[t].pc = "failed" =>
              listeners[t].exc \notin (StreamErrors \cup {"TimeoutError"})
        /\ listeners[t].pc \in {"stopped", "cancelled"} => listeners[t].stop

\* C9: a poll cycle that fails raises UpdateFailed once, keeps none of its
\* reads, and leaves coordinator.data and everything the previous Snapshot
\* shows (device list, poll results) as they were when the cycle began.
C9_FailedCycleLeavesSnapshot ==
    [][n_failures' # n_failures =>
          /\ n_failures' = n_failures + 1
          /\ cycle'.raised = 1
          /\ cycle'.poll_results = <<>>
          /\ data' = data
          /\ SnapshotView' = cycle.prior]_vars

\* C10: what a returned Snapshot shows never changes afterwards.
C10_SnapshotImmutable == data.set => SnapshotView = published

\* ------------------------------------------------------------ directory
\* refreshes of the directory compared with one
MaxRefreshes == 3

\* the directory after n calls of get_clients under the listing `response`
RECURSIVE RefreshTimes(_, _, _)
RefreshTimes(directory, response, n) ==
    IF n = 0 THEN directory
    ELSE RefreshTimes(MergeClients(directory, response), response, n - 1)

EndpointsOf(list) == {list[i].endpoint : i \in DOMAIN list}

\* C11: in every reachable state no two entries of the directory have the
\* same endpoint, and refreshing it N times (1 <= N <= MaxRefreshes) under
\* the server's present listing gives the same list as refreshing it once.
C11_RefreshIdempotent ==
    /\ \A i, j \in DOMAIN lwm2m_clients :
          i # j => lwm2m_clients[i].endpoint # lwm2m_clients[j].endpoint
    /\ \A n \in 1..MaxRefreshes :
          RefreshTimes(lwm2m_clients, server_clients, n) =
              MergeClients(lwm2m_clients, server_clients)

\* the second poll cycle refreshed a directory of two devices under a
\* listing of the same two devices, and the list is what it was before
C11_Witness ==
    /\ n_cycles = 2
    /\ cycle.outcome = "returned"
    /\ cycle.response = "list"
    /\ EndpointsOf(cycle.listing) = {"epA", "epB"}
    /\ Len(cycle.prior.clients) = 2
    /\ lwm2m_clients = cycle.prior.clients

\* C12: a refresh keeps every entry of the directory as it is and where it
\* is, appends one entry per listed endpoint that was not known, built from
\* the listing, and what a cycle returning at once publishes as its device
\* list is the whole directory.
C12_FirstSeenWins ==
    [][(\/ lwm2m_clients' # lwm2m_clients
        \/ (cycle.pc = "get_clients" /\ cycle'.response = "list")) =>
          /\ Len(lwm2m_clients') >= Len(lwm2m_clients)
          /\ SubSeq(lwm2m_clients', 1, Len(lwm2m_clients)) = lwm2m_clients
          /\ \A k \in (Len(lwm2m_clients) + 1)..Len(lwm2m_clients') :
                /\ lwm2m_clients'[k].endpoint \notin EndpointsOf(lwm2m_clients)
                /\ \E i \in DOMAIN server_clients :
                      lwm2m_clients'[k] = Lwm2mClient(server_clients[i])
          /\ EndpointsOf(server_clients) \subseteq EndpointsOf(lwm2m_clients')
          /\ (cycle.pc = "get_clients" /\ cycle'.outcome = "returned") =>
                published'.clients = lwm2m_clients']_vars

\* epA is known with registration r1; the listing has epA with r2 and the
\* new epB; the refresh kept epA as it was and appended epB
C12_Witness ==
    /\ cycle.outcome = "returned"
    /\ cycle.response = "list"
    /\ cycle.listing = <<ClientData("epA", "r2"), ClientData("epB", "r1")>>
    /\ cycle.prior.clients = <<Lwm2mClient(ClientData("epA", "r1"))>>
    /\ lwm2m_clients = <<Lwm2mClient(ClientData("epA", "r1")),
                         Lwm2mClient(ClientData("epB", "r1"))>>
    /\ published.clients = lwm2m_clients

\* C13: a listing request answered with a success status and an empty body
\* makes get_clients raise LeshanClientEmptyResponseError and leaves the
\* directory as it was.
C13_EmptyListingRaises ==
    [][(cycle.pc = "get_clients" /\ cycle'.response = "null") =>
          /\ cycle'.cause = "LeshanClientEmptyResponseError"
          /\ lwm2m_clients' = lwm2m_clients]_vars

\* ------------------------------------------------ transport, value codec
\* the error statuses: 400 <= status < 600
IsErrorStatus(status) == status >= 400 /\ status < 600

\* C14: request on a response with a status in [400,600) raises
\* LeshanClientError with the status and the decoded body when the response
\* is JSON, else the raw text; on a timeout it raises
\* LeshanClientConnectionTimeoutError; on a connection failure
\* LeshanClientConnectionError; on a status below 400 it raises nothing and
\* returns the body.
C14_RequestClassifiesFailures ==
    request_call.done =>
        LET x == request_call.in
            r == request_call.out
            json == x.content_type = "application/json"
        IN /\ x.transport = "TimeoutError" =>
                 r.exc = "LeshanClientConnectionTimeoutError"
           /\ x.transport = "ClientConnectionError" =>
                 r.exc = "LeshanClientConnectionError"
           /\ (x.transport = "ok" /\ IsErrorStatus(x.status)) =>
                 /\ r.exc = "LeshanClientError"
                 /\ r.status = x.status
                 /\ r.content = [kind |-> IF json THEN "json" ELSE "message",
                                 text |-> x.text]
           /\ (x.transport = "ok" /\ x.status < 400) =>
                 /\ r.exc = "none"
                 /\ r.returned.text = x.text

\* the seven kinds, as the wire spells them
KnownKinds ==
    {"string", "integer", "float", "boolean", "opaque", "time", "objlnk",
     "STRING", "INTEGER", "FLOAT", "BOOLEAN", "OPAQUE", "TIME", "OBJLNK"}

\* the kinds whose raw value is converted to a number
NumericKinds == {"integer", "INTEGER", "float", "FLOAT"}

\* C15: kind "integer" with raw "42" decodes to the integer 42 and kind
\* "boolean" with raw "true" to the boolean true; each of the seven kinds is
\* accepted and keeps its kind (a numeric kind fails only on a raw value that
\* is no numeral); every other kind string raises the invalid-kind error
\* (the ValueError of the kind enumeration), and no value is produced for it.
C15_DecodeByKind ==
    value_call.done =>
        LET x == value_call.in
            r == value_call.out
        IN /\ (x.type = "integer" /\ x.value = RawStr(<<"4", "2">>)) =>
                 (r.exc = "none" /\ r.value = RawInt(42))
           /\ (x.type = "boolean" /\ x.value = RawStr(<<"t", "r", "u", "e">>)) =>
                 (r.exc = "none" /\ r.value = RawBool(TRUE))
           /\ (x.type \in KnownKinds \ NumericKinds) =>
                 (r.exc = "none" /\ r.type = Lower(x.type))
           /\ (x.type \in NumericKinds) =>
                 /\ r.type = Lower(x.type)
                 /\ r.exc \in {"none", "ValueError"}
                 /\ (x.value \in {RawStr(<<"4", "2">>), RawInt(42)}) => r.exc = "none"
                 /\ (x.value = RawStr(<<"a", "b", "c">>)) => r.exc = "ValueError"
           /\ (x.type \notin KnownKinds) => r.exc = "ValueError"

\* the wire's "INTEGER" with raw "42" has been decoded to the integer 42
C15_Witness ==
    /\ value_call.done
    /\ value_call.in.type = "INTEGER"
    /\ value_call.in.value = RawStr(<<"4", "2">>)
    /\ value_call.out.value = RawInt(42)
    /\ value_call.out.type = "integer"

\* --------------------------------------------- observe and cancel_observe
\* some Subscription has exactly the target's endpoint, object, instance
\* and resource
HasExactMatch(t) ==
    \E i \in DOMAIN observations :
        /\ observations[i].endpoint = t.endpoint
        /\ observations[i].object_id = t.object_id
        /\ observations[i].instance_id = t.instance_id
        /\ observations[i].resource_id = t.resource_id

\* C16: a cancel_observe call for a target no Subscription matches exactly
\* sends no deactivation request, raises nothing, and leaves the
\* Subscription list, the listener tasks and the stop flags as they were.
C16_CancelWithoutMatchIsNoOp ==
    [][\A t \in Targets :
          (CancelStart(t) /\ ~HasExactMatch(t)) =>
              /\ cancels' = cancels
              /\ call_errors' = {}
              /\ UNCHANGED <<observations, endpoint_notification_tasks,
                             endpoint_notification_stop_events, listeners>>]_vars

\* one Subscription was made, a cancel_observe was called, no deactivation
\* request is or was in flight and nothing changed: the call matched nothing
C16_Witness ==
    /\ cancel_called
    /\ cancels = EmptyBag
    /\ call_errors = {}
    /\ n_observes = 1
    /\ Len(observations) = 1
    /\ endpoint_notification_tasks[observations[1].endpoint] = 1
    /\ ~listeners[1].stop /\ ~listeners[1].must_cancel

\* C17: every observe call returns without raising, whatever becomes of its
\* activation request, with its Subscription appended to the registry and
\* the endpoint's listener registered, not stopped and not cancelled.
C17_ObserveSurvivesActivationFailure ==
    [][n_observes' = n_observes + 1 =>
          /\ call_errors' = {}
          /\ Len(observations') = Len(observations) + 1
          /\ SubSeq(observations', 1, Len(observations)) = observations
          /\ LET e == observations'[Len(observations')].endpoint
                 tk == endpoint_notification_tasks'[e]
             IN /\ tk # 0
                /\ ~listeners'[tk].stop
                /\ ~listeners'[tk].must_cancel
                /\ \A t \in DOMAIN listeners : listeners'[t] = listeners[t]]_vars

\* C18: every cancel_observe call that found its Subscription returns
\* without raising, whatever becomes of its deactivation request, with one
\* Subscription removed, and with the endpoint's listener stopped if no
\* Subscription of the endpoint remains.
C18_CancelSurvivesDeactivationFailure ==
    [][BagCardinality(cancels') < BagCardinality(cancels) =>
          /\ call_errors' = {}
          /\ Len(observations') = Len(observations) - 1
          /\ \A e \in Endpoints :
                (EndpointCount(observations, e) > 0 /\ EndpointCount(observations', e) = 0) =>
                    /\ endpoint_notification_tasks'[e] = 0
                    /\ endpoint_notification_stop_events'[e] = 0
                    /\ listeners'[endpoint_notification_tasks[e]].stop]_vars

\* C20: the callbacks of one notification are started one at a time, each
\* when the one before it has returned, in the order of registration, and
\* no matching Subscription the loop passes is left out.
C20_CallbacksInRegistrationOrder ==
    [][\A t \in DOMAIN listeners :
          LET L == listeners[t]
              M == listeners'[t]
          IN (Len(M.fired) > 0 /\ M.fired # L.fired) =>
                LET new == M.fired[Len(M.fired)]
                    before == IF L.pc = "callback" THEN L.fired ELSE <<>>
                IN /\ M.pc = "callback"
                   /\ L.pc \in {"streaming", "callback"}
                   /\ M.fired = Append(before, new)
                   /\ \A k \in DOMAIN before : before[k].id < new.id
                   /\ L.pc = "callback" => (M.notif = L.notif /\ M.value = L.value)
                   /\ new = observations[M.idx]
                   /\ \A j \in ((IF L.pc = "callback" THEN L.idx ELSE 0) + 1)..(M.idx - 1) :
                         ~(/\ observations[j].endpoint = M.notif.ep
                           /\ observations[j].object_id = M.notif.object_id
                           /\ observations[j].instance_id = M.notif.instance_id
                           /\ observations[j].resource_id = M.notif.resource_id)]_vars

\* two Subscriptions match the notification: the first one's callback has
\* returned and the second one's is running
C20_Witness ==
    \E t \in DOMAIN listeners :
        /\ listeners[t].pc = "callback"
        /\ Len(listeners[t].fired) = 2
        /\ listeners[t].fired[1].callback = "c1"
        /\ listeners[t].fired[2].callback = "c2"
        /\ listeners[t].fired[1].id < listeners[t].fired[2].id
        /\ Len(observations) = 3

\* ---------------------------------------------------- delivery ordering
\* C19: in the log of one listener's callback invocations the notifications
\* appear in the order they came off the stream; every callback started for
\* a notification has ended before a callback is started for a later one;
\* and all callbacks invoked for one notification get that same notification.
C19_DeliveredInStreamOrder ==
    \A i, j \in DOMAIN delivery_log :
        (i < j /\ delivery_log[i].task = delivery_log[j].task) =>
            /\ delivery_log[i].n <= delivery_log[j].n
            /\ delivery_log[i].n = delivery_log[j].n =>
                  delivery_log[i].notif = delivery_log[j].notif
            /\ (/\ delivery_log[i].kind = "start"
                /\ delivery_log[j].kind = "start"
                /\ delivery_log[i].n < delivery_log[j].n) =>
                  \E k \in DOMAIN delivery_log :
                      /\ i < k /\ k < j
                      /\ delivery_log[k] = [delivery_log[i] EXCEPT !.kind = "end"]

\* a notification for resource 5 was delivered, its callback ended, and the
\* callback for a later notification, for resource 6, has started
C19_Witness ==
    /\ Len(delivery_log) >= 3
    /\ delivery_log[1].kind = "start" /\ delivery_log[1].n = 1
    /\ delivery_log[1].notif.resource_id = 5
    /\ delivery_log[2] = [delivery_log[1] EXCEPT !.kind = "end"]
    /\ delivery_log[3].kind = "start" /\ delivery_log[3].n = 2
    /\ delivery_log[3].notif.resource_id = 6
    /\ delivery_log[3].task = delivery_log[1].task

\* ------------------------------------------------ duplicate registration
\* entries a and b are bound to the same resource of the same device
SameTarget(a, b) ==
    /\ a.endpoint = b.endpoint
    /\ a.object_id = b.object_id
    /\ a.instance_id = b.instance_id
    /\ a.resource_id = b.resource_id

\* C21: an observe call appends its Subscription and leaves the ones already
\* registered as they are, duplicates included; and when the delivery of a
\* notification ends, every registered Subscription that duplicates an
\* invoked one (same device, instance and resource, another callback) has
\* been invoked for the notification too.
C21_DuplicatesAreAdditive ==
    [][/\ n_observes' = n_observes + 1 =>
             /\ Len(observations') = Len(observations) + 1
             /\ SubSeq(observations', 1, Len(observations)) = observations
             /\ observations'[Len(observations')].id = n_observes'
       /\ \A t \in DOMAIN listeners :
             (listeners[t].pc = "callback" /\ listeners'[t].pc = "streaming") =>
                 \A k \in DOMAIN listeners[t].fired, i \in DOMAIN observations' :
                     (/\ SameTarget(observations'[i], listeners[t].fired[k])
                      /\ observations'[i].callback # listeners[t].fired[k].callback) =>
                         \E m \in DOMAIN listeners[t].fired :
                             listeners[t].fired[m].id = observations'[i].id]_vars

\* ------------------------------------------------ registration listener
\* C22: every REGISTRATION event the listener has taken off the stream and
\* could decode has exactly one invocation of the callback, with the Device
\* of that event's endpoint and registration id, whether or not the endpoint
\* is in the Directory or was reported before; the invocations are in the
\* order of their events; an event of another type, and a REGISTRATION event
\* that cannot be decoded into a Device, has none.
C22_CallbackOncePerRegistration ==
    /\ \A k \in DOMAIN registration_events :
          LET ev == registration_events[k]
              of_k == {c \in DOMAIN registration_calls : registration_calls[c].n = k}
          IN IF /\ ev.type = "REGISTRATION"
                /\ ev.json_ok /\ ev.complete /\ ev.instances_ok
             THEN /\ Cardinality(of_k) = 1
                  /\ \A c \in of_k :
                        registration_calls[c].client =
                            [endpoint |-> ev.endpoint, registration_id |-> ev.registrationId]
             ELSE of_k = {}
    /\ \A c \in DOMAIN registration_calls :
          /\ registration_calls[c].n \in DOMAIN registration_events
          /\ \A b \in 1..(c - 1) : registration_calls[b].n < registration_calls[c].n

\* epA is in the Directory, an event of another type was passed over, and
\* the callback was invoked for both of two registrations of epA
C22_Witness ==
    /\ \E i \in DOMAIN lwm2m_clients : lwm2m_clients[i].endpoint = "epA"
    /\ Len(registration_events) = 3
    /\ registration_events[1].type = "REGISTRATION"
    /\ registration_events[2].type = "UPDATED"
    /\ registration_events[3].type = "REGISTRATION"
    /\ Len(registration_calls) = 2
    /\ registration_calls[1].n = 1 /\ registration_calls[2].n = 3
    /\ registration_calls[1].client.endpoint = "epA"
    /\ registration_calls[2].client.endpoint = "epA"

\* C23: whatever ends a connection of the registration listener, or an
\* attempt to connect, or a callback: after a TimeoutError the listener is
\* connecting again at once, with no sleep; after any other exception it is
\* in the sleep of 5 and from there goes on to connect; it never ends; and,
\* the sleeps ending, the callbacks finishing and an attempt to connect
\* succeeding in the end, it is connected infinitely often.
C23_RegistrationListenerReconnects ==
    /\ [][/\ registration'.pc \notin {"failed", "stopped", "cancelled"}
          /\ (/\ registration.pc \in {"connecting", "streaming", "callback"}
              /\ registration' # registration
              /\ registration'.exc = "TimeoutError") =>
                 (registration'.pc = "connecting" /\ registration'.delay = 0)
          /\ (/\ registration.pc \in {"connecting", "streaming", "callback"}
              /\ registration' # registration
              /\ registration'.exc \notin {"none", "TimeoutError"}) =>
                 (registration'.pc = "backoff" /\ registration'.delay = BackoffDelay)
          /\ (registration.pc = "backoff" /\ registration' # registration) =>
                 (registration'.pc = "connecting" /\ registration'.delay = 0)]_vars
    /\ []<>(registration.pc = "streaming")

\* the listener connecting again after its callback failed and it slept
C23_Witness ==
    /\ registration.pc = "connecting"
    /\ registration.exc = "RuntimeError"
    /\ Len(registration_calls) >= 1

\* ------------------------------------------- calls through the session
\* the exchange ended in a transport-level error: no response (timeout,
\* connection error), or a response with an error status
TransportFailure(x) == x.transport # "ok" \/ IsErrorStatus(x.status)

\* C24: a read or write call that ends has sent one HTTP request, or none
\* when the session it found was closed, and never a second one; when its
\* exchange fails at the transport level the call raises, and a timeout, a
\* connection error and an error status that request can report are raised
\* as the matching client error; the step leaves the Subscription registry,
\* the listeners and the Directory as they were.
C24_OneRequestErrorsPropagate ==
    [][(last_call'.id # last_call.id /\ last_call'.op \in {"read", "write"}) =>
          /\ last_call'.sent <= 1
          /\ last_call'.exc # "RuntimeError" => last_call'.sent = 1
          /\ \A c \in in_flight' : c.id # last_call'.id
          /\ (last_call'.sent = 1 /\ TransportFailure(last_call'.exchange)) =>
                /\ last_call'.exc # "none"
                /\ last_call'.exchange.transport = "TimeoutError" =>
                      last_call'.exc = "LeshanClientConnectionTimeoutError"
                /\ last_call'.exchange.transport = "ClientConnectionError" =>
                      last_call'.exc = "LeshanClientConnectionError"
          /\ observations' = observations
          /\ listeners' = listeners
          /\ lwm2m_clients' = lwm2m_clients]_vars

\* a read has ended in the timeout error after one request, with a
\* Subscription registered and a device in the Directory
C24_Witness ==
    /\ last_call.op = "read"
    /\ last_call.exchange.transport = "TimeoutError"
    /\ last_call.exc = "LeshanClientConnectionTimeoutError"
    /\ last_call.sent = 1
    /\ in_flight = {}
    /\ Len(observations) = 1
    /\ Len(lwm2m_clients) = 1

\* C25: a call that finds no session creates one and goes through it; a
\* call that finds one goes through it and creates none; a close never
\* creates a session and never raises, and one that finds no session
\* changes nothing; a close that has returned leaves the client without a
\* session; and a call made while no close is in progress never goes
\* through a closed session.
C25_SessionLazyCloseIdempotent ==
    [][/\ n_calls' = n_calls + 1 =>
             /\ IF session = 0
                THEN /\ Len(sessions') = Len(sessions) + 1
                     /\ session' = Len(sessions')
                     /\ sessions'[session'] = "open"
                ELSE /\ sessions' = sessions
                     /\ session' = session
             /\ closing = 0 =>
                   /\ sessions'[session'] = "open"
                   /\ \E c \in in_flight' : c.id = n_calls' /\ c.session = session'
       /\ n_closes' = n_closes + 1 =>
             /\ Len(sessions') = Len(sessions)
             /\ (session = 0 /\ closing = 0) =>
                   /\ UNCHANGED <<session, sessions, in_flight, closing>>
                   /\ last_call'.op = "close" /\ last_call'.exc = "none"
       /\ (last_call'.op = "close" /\ last_call' # last_call) =>
             /\ last_call'.exc = "none"
             /\ session' = 0]_vars

\* request, close, close, request: the second request is in flight on a
\* second session, the first session is closed
C25_Witness ==
    /\ sessions = <<"closed", "open">>
    /\ session = 2
    /\ n_closes = 2
    /\ closing = 0
    /\ n_calls = 2
    /\ \E c \in in_flight : c.id = 2 /\ c.session = 2

\* ------------------------------------------------------------ poll list
\* C26: the poll list an instance reads holds only entries added on that
\* instance, so a poll cycle reads only entries of its own instance; a
\* newly constructed instance has an empty poll list; and a poll list only
\* grows at its end.
C26_PollListPerCoordinator ==
    [][/\ \A c \in 1..coordinators' :
             \A k \in DOMAIN PollListOf(c)' : added_by'[k] = c
       /\ cycle'.pc = "read" => added_by'[cycle'.pi] = coordinators'
       /\ coordinators' # coordinators => PollListOf(coordinators')' = <<>>
       /\ \A c \in 1..coordinators :
             /\ Len(PollListOf(c)') >= Len(PollListOf(c))
             /\ SubSeq(PollListOf(c)', 1, Len(PollListOf(c))) = PollListOf(c)]_vars

\* ------------------------------------------------------------ poll cycle
\* the (Device, ObjectInstance) pairs a poll list declares, entry by entry
\* and within an entry instance by instance
RECURSIVE PollTargets(_)
PollTargets(list) ==
    IF list = <<>> THEN <<>>
    ELSE [i \in 1..Len(Head(list).instances) |->
             [client |-> Head(list).client, instance |-> Head(list).instances[i]]]
         \o PollTargets(Tail(list))

\* C27: a poll cycle that returns has had its listing answered before any
\* read was awaited; the Snapshot it returns shows the directory with every
\* listed device in it, and one poll result for every (entry, declared
\* instance) of the poll list, in the order of the poll list and, within an
\* entry, of its instances, each with the entry's device, the instance and
\* the decoded values of a read.
C27_CycleReturnsOneResultPerInstance ==
    [][/\ cycle'.pc = "read" => cycle'.response = "list"
       /\ (cycle'.outcome = "returned" /\ cycle.pc \in {"get_clients", "read"}) =>
             LET res == data'.poll_results
             IN /\ data'.set
                /\ cycle'.response = "list"
                /\ SnapshotView'.clients = lwm2m_clients'
                /\ \A i \in DOMAIN cycle'.listing :
                      \E j \in DOMAIN lwm2m_clients' :
                          lwm2m_clients'[j].endpoint = cycle'.listing[i].endpoint
                /\ [k \in DOMAIN res |->
                        [client |-> res[k].client, instance |-> res[k].instance]]
                      = PollTargets(poll_list')
                /\ \A k \in DOMAIN res :
                      \E rs \in ReadResponses :
                          /\ ~DecodeFails(rs)
                          /\ res[k].resources = DecodeResources(rs)]_vars

\* the poll list declares epB with two instances and then epA with one; the
\* Snapshot returned has the three results in that order, and two devices
C27_Witness ==
    /\ cycle.outcome = "returned"
    /\ data.set
    /\ Len(poll_list) = 2
    /\ poll_list[1].client = "epB" /\ poll_list[2].client = "epA"
    /\ Len(data.poll_results) = 3
    /\ data.poll_results[1].client = "epB"
    /\ data.poll_results[1].instance = Lwm2mObjectInstance(3, 0)
    /\ data.poll_results[2].client = "epB"
    /\ data.poll_results[2].instance = Lwm2mObjectInstance(3, 1)
    /\ data.poll_results[3].client = "epA"
    /\ Len(SnapshotView.clients) = 2

\* --------------------------------------------- events of another type
\* C28: the step in which a listener takes an event whose type is not
\* NOTIFICATION off its stream invokes no callback and changes nothing: the
\* listener is in Streaming as before, with nothing in delivery, and the
\* Subscription registry and the task and stop-event registries are as
\* they were.
C28_OtherEventsIgnored ==
    [][(/\ Len(events_seen') = Len(events_seen) + 1
        /\ events_seen'[Len(events_seen')].type # "NOTIFICATION") =>
           LET t == events_seen'[Len(events_seen')].task
           IN /\ listeners[t].pc = "streaming"
              /\ listeners' = listeners
              /\ listeners'[t].fired = <<>>
              /\ observations' = observations
              /\ endpoint_notification_tasks' = endpoint_notification_tasks
              /\ endpoint_notification_stop_events' = endpoint_notification_stop_events
              /\ delivery_log' = delivery_log]_vars

\* a REGISTRATION event was passed over and the NOTIFICATION after it is
\* being delivered by the same listener
C28_Witness ==
    /\ Len(events_seen) = 2
    /\ events_seen[1].type = "REGISTRATION"
    /\ events_seen[2].type = "NOTIFICATION"
    /\ events_seen[1].task = events_seen[2].task
    /\ listeners[events_seen[2].task].pc = "callback"
    /\ listeners[events_seen[2].task].exc = "none"

\* ------------------------------------------------ the listener's end
\* the step removes the last Subscription of endpoint e
RemovesLastOf(e) ==
    /\ Len(observations') < Len(observations)
    /\ \E i \in 1..Len(observations) : observations[i].endpoint = e
    /\ LastOfEndpoint(observations', e)

\* task t has been signalled to stop
Stopping(t) ==
    /\ t \in DOMAIN listeners
    /\ listeners[t].stop

\* task t has terminated
Ended(t) ==
    /\ t \in DOMAIN listeners
    /\ listeners[t].pc \in Terminated

\* C29: the step that removes the last Subscription of an endpoint signals
\* the endpoint's listener to stop, in whatever state the listener is; a
\* listener signalled to stop opens no connection and starts no callback,
\* and eventually it has terminated.
C29_ListenerTerminatesAfterLastCancel ==
    /\ [][\A e \in Endpoints :
            (RemovesLastOf(e) /\ endpoint_notification_tasks[e] # 0) =>
                LET t == endpoint_notification_tasks[e]
                IN /\ listeners'[t].stop
                   /\ listeners'[t].must_cancel \/ listeners'[t].pc \in Terminated
                   /\ endpoint_notification_tasks'[e] = 0]_vars
    /\ [][\A t \in DOMAIN listeners :
            listeners[t].stop =>
                /\ listeners'[t].stop
                /\ listeners'[t].pc \in {listeners[t].pc} \cup Terminated
                /\ listeners'[t].fired \in {listeners[t].fired, <<>>}]_vars
    /\ \A t \in 1..MaxTasks : Stopping(t) ~> Ended(t)

\* the last Subscription of the endpoint is removed while its listener is
\* suspended in a callback: the listener is to be cancelled there
C29_Witness ==
    \E t \in DOMAIN listeners :
        /\ listeners[t].stop /\ listeners[t].must_cancel
        /\ listeners[t].pc = "callback"
        /\ LastOfEndpoint(observations, listeners[t].endpoint)

\* ------------------------------------------- the order of cancel_observe
\* the entry object x is in the list
Registered(x, list) == \E i \in DOMAIN list : list[i].id = x.id

\* the entry objects whose callback listener record L has invoked
FiredIds(L) == {L.fired[k].id : k \in DOMAIN L.fired}

\* C30: cancel_observe (1) finds the entry and sends the deactivation
\* request in a step that leaves the registry and the listeners as they
\* are, the entry found being registered; (2) an entry leaves the registry
\* only in the step in which a deactivation request ends, and that step
\* removes one entry equal to the one found and, if no entry of its endpoint
\* remains, in the same step signals the listener to stop and discards its
\* task and stop event; a listener is signalled in no other step; (3) a
\* step in which no deactivation request ends leaves an entry whose request
\* is in flight registered; (4) a notification that arrives while the
\* request is in flight and matches the registered entry has the callback
\* of that entry invoked in the step in which it arrives.
C30_CancelObserveOrder ==
    /\ [][BagCardinality(cancels') > BagCardinality(cancels) =>
            /\ observations' = observations
            /\ listeners' = listeners
            /\ endpoint_notification_tasks' = endpoint_notification_tasks
            /\ endpoint_notification_stop_events' = endpoint_notification_stop_events
            /\ \E x \in BagToSet(cancels') :
                  /\ cancels' = cancels (+) SetToBag({x})
                  /\ Registered(x, observations)]_vars
    /\ [][Len(observations') < Len(observations) =>
            \E x \in BagToSet(cancels) :
               /\ cancels' = cancels (-) SetToBag({x})
               /\ RemoveIndex(observations, x) # 0
               /\ observations' = RemoveAt(observations, RemoveIndex(observations, x))
               /\ (/\ LastOfEndpoint(observations', x.endpoint)
                   /\ endpoint_notification_tasks[x.endpoint] # 0) =>
                      /\ listeners'[endpoint_notification_stop_events[x.endpoint]].stop
                      /\ endpoint_notification_tasks'[x.endpoint] = 0
                      /\ endpoint_notification_stop_events'[x.endpoint] = 0]_vars
    /\ [][(\E t \in DOMAIN listeners : listeners'[t].stop /\ ~listeners[t].stop) =>
            Len(observations') < Len(observations)]_vars
    /\ [][BagCardinality(cancels') >= BagCardinality(cancels) =>
            \A x \in BagToSet(cancels) :
                Registered(x, observations) => Registered(x, observations')]_vars
    /\ [][\A t \in DOMAIN listeners, x \in BagToSet(cancels) :
            (/\ listeners[t].pc = "streaming" /\ listeners'[t].pc = "callback"
             /\ Registered(x, observations)
             /\ Matches(x, listeners'[t].notif)) =>
                 listeners'[t].fired = <<x>>]_vars

\* a deactivation request is in flight, its entry is registered, and the
\* listener is suspended in the callback of that entry
C30_Witness ==
    \E t \in DOMAIN listeners, x \in BagToSet(cancels) :
        /\ Registered(x, observations)
        /\ listeners[t].pc = "callback"
        /\ Matches(x, listeners[t].notif)
        /\ x.id \in FiredIds(listeners[t])

\* ----------------------------------------------------- the path of read
\* C31: a read that has returned with a resource id (0 included) requested
\* the resource path of that id and returned the one value of that resource;
\* a read that has returned with resource id None requested the instance
\* path and returned all resources of the instance.
C31_ReadOfResourceIdZero ==
    read_call.pc = "returned" =>
        IF read_call.resource_id # None
        THEN /\ read_call.path = ResourcePath(read_call.endpoint, read_call.instance,
                                              read_call.resource_id)
             /\ Len(read_call.values) = 1
             /\ read_call.values[1].resource_id = read_call.resource_id
        ELSE /\ read_call.path = InstancePath(read_call.endpoint, read_call.instance)
             /\ Len(read_call.values) = Len(read_call.held)

\* ------------------------------------------------------- discovery flows
\* client c is contained in the list of clients
Contained(c, list) == \E i \in DOMAIN list : list[i].endpoint = c.endpoint

C32_OverlappingCancelIsNoOp ==
    [][\A x \in BagToSet(cancels) :
          (/\ cancels' = cancels (-) SetToBag({x})
           /\ RemoveIndex(observations, x) = 0) =>
              /\ call_errors' \cap {"ValueError", "KeyError"} = {}
              /\ observations' = observations
              /\ listeners' = listeners
              /\ endpoint_notification_tasks' = endpoint_notification_tasks
              /\ endpoint_notification_stop_events' = endpoint_notification_stop_events]_vars

\* ------------------------------------------- one listener per endpoint
\* task t is running its loop: it is connecting, streaming, delivering or
\* backing off, and no cancellation is pending on it
Active(t) ==
    /\ listeners[t].pc \in {"connecting", "streaming", "callback", "backoff"}
    /\ ~listeners[t].must_cancel

\* C33: no endpoint has two listeners running their loop at the same time;
\* an observe that creates a listener creates it fresh, with its stop flag
\* unset, registers it for the endpoint and leaves the older listeners as
\* they are; and a listener whose stop flag is set keeps it set, opens no
\* connection and starts no callback.
C33_OneActiveListenerPerEndpoint ==
    /\ [](\A t, u \in DOMAIN listeners :
            (Active(t) /\ Active(u) /\ listeners[t].endpoint = listeners[u].endpoint)
                => t = u)
    /\ [][Len(listeners') > Len(listeners) =>
            LET n == Len(listeners')
            IN /\ n = Len(listeners) + 1
               /\ listeners'[n] = NewListener(listeners'[n].endpoint)
               /\ endpoint_notification_tasks'[listeners'[n].endpoint] = n
               /\ endpoint_notification_stop_events'[listeners'[n].endpoint] = n
               /\ SubSeq(listeners', 1, Len(listeners)) = listeners]_vars
    /\ [][\A t \in DOMAIN listeners :
            listeners[t].stop =>
                /\ listeners'[t].stop
                /\ listeners'[t].pc \notin {"connecting", "callback"} \ {listeners[t].pc}
                /\ listeners'[t].fired \in {listeners[t].fired, <<>>}]_vars

\* the endpoint's first listener was stopped and a second listener, created
\* by a later observe, is streaming
C33_Witness ==
    /\ Len(listeners) = 2
    /\ listeners[1].endpoint = listeners[2].endpoint
    /\ listeners[1].stop
    /\ ~listeners[2].stop
    /\ listeners[2].pc = "streaming"
    /\ endpoint_notification_tasks[listeners[2].endpoint] = 2

\* ------------------------------------------------------ boolean values
\* the wire forms of a boolean: the raw booleans and the two words
TrueForms == {RawBool(TRUE), RawStr(<<"t", "r", "u", "e">>)}

FalseForms == {RawBool(FALSE), RawStr(<<"f", "a", "l", "s", "e">>)}

\* C34: a value of kind boolean is decoded without an error to boolean true
\* when it arrives as raw true or "true", and to boolean false when it
\* arrives as raw false or "false".
C34_BooleanTruthPreserved ==
    (/\ value_call.done
     /\ Lower(value_call.in.type) = "boolean"
     /\ value_call.in.value \in TrueForms \cup FalseForms) =>
        /\ value_call.out.exc = "none"
        /\ value_call.out.value = RawBool(value_call.in.value \in TrueForms)

\* ------------------------------------- deactivation with a duplicate left
\* C35: a deactivation request is sent for an entry only when no other
\* registered entry is bound to the same resource of the same device; and
\* the entry a cancel_observe removes is the first registered of those
\* equal to the one it found.
C35_NoDeactivationWhileSubscribed ==
    /\ [][\A x \in BagToSet(cancels') :
            cancels' = cancels (+) SetToBag({x}) =>
                \A i \in DOMAIN observations :
                    SameTarget(observations[i], x) => observations[i].id = x.id]_vars
    /\ [][Len(observations') < Len(observations) =>
            \E x \in BagToSet(cancels) :
                /\ RemoveIndex(observations, x) # 0
                /\ observations' = RemoveAt(observations, RemoveIndex(observations, x))]_vars

\* ------------------------------------------------ a callback that raises
\* C36: whatever way a callback ends (no cancellation pending), the listener
\* goes on with the delivery of the same notification on the same
\* connection: it is suspended in the callback of the next matching entry,
\* or it is streaming and no registered entry after the iterator's position
\* matches the notification; and a step of a listener removes no entry.
C36_RaisingCallbackAffectsOnlyItself ==
    /\ [][\A t \in DOMAIN listeners :
            (/\ listeners[t].pc = "callback"
             /\ ~listeners[t].must_cancel
             /\ listeners'[t] # listeners[t]
             /\ ~listeners'[t].must_cancel) =>
                \/ /\ listeners'[t].pc = "callback"
                   /\ listeners'[t].notif = listeners[t].notif
                   /\ Len(listeners'[t].fired) = Len(listeners[t].fired) + 1
                \/ /\ listeners'[t].pc = "streaming"
                   /\ \A j \in (listeners[t].idx + 1)..Len(observations) :
                         ~Matches(observations[j], listeners[t].notif)]_vars
    /\ [][listeners' # listeners /\ cancels' = cancels /\ n_observes' = n_observes =>
            observations' = observations]_vars

\* ------------------------------------------------- the Directory grows
\* C37: every step leaves the entries of the Directory in place and
\* unchanged, new entries being added after them: the Directory never
\* shrinks and an entry keeps the field values first seen.
C37_DirectoryOnlyGrows ==
    [][/\ Len(lwm2m_clients') >= Len(lwm2m_clients)
       /\ SubSeq(lwm2m_clients', 1, Len(lwm2m_clients)) = lwm2m_clients]_vars

\* the last listing the client was given lacks an endpoint of the Directory,
\* or lists it with another registration id
C37_Witness ==
    /\ cycle.response = "list"
    /\ \E i \in DOMAIN lwm2m_clients :
          ~\E k \in DOMAIN cycle.listing :
              cycle.listing[k].endpoint = lwm2m_clients[i].endpoint
    /\ \E i \in DOMAIN lwm2m_clients : \E k \in DOMAIN cycle.listing :
          /\ cycle.listing[k].endpoint = lwm2m_clients[i].endpoint
          /\ cycle.listing[k].registrationId # lwm2m_clients[i].registration_id

\* ---------------------------------------------- the two registries
\* C39: the task registry and the stop-event registry hold an entry for the
\* same endpoints, the stop event stored for an endpoint is unset, and no
\* call has raised KeyError.
C39_RegistriesInStep ==
    /\ \A e \in Endpoints :
          /\ (endpoint_notification_tasks[e] = 0) = (endpoint_notification_stop_events[e] = 0)
          /\ endpoint_notification_stop_events[e] # 0 =>
                ~listeners[endpoint_notification_stop_events[e]].stop
    /\ "KeyError" \notin call_errors

\* a cancel_observe has popped the entries of one endpoint (its listener's
\* stop event is set) while another endpoint has its entries
C39_Witness ==
    \E t \in DOMAIN listeners, e \in Endpoints :
        /\ listeners[t].stop
        /\ endpoint_notification_tasks[listeners[t].endpoint] = 0
        /\ endpoint_notification_stop_events[listeners[t].endpoint] = 0
        /\ e # listeners[t].endpoint
        /\ endpoint_notification_tasks[e] # 0
        /\ endpoint_notification_stop_events[e] # 0

====
